---- MODULE Spec2Model ----
(***************************************************************************)
(* Tiered session cache of mcp_server_ds: TTLInMemoryDataManager (memory   *)
(* tier, cacheout-backed), DiskCacheDataManager (disk tier, diskcache-     *)
(* backed) and HybridDataManager (coordinator).                            *)
(*                                                                         *)
(* Every coordinator method runs under HybridDataManager._lock, so one     *)
(* coordinator call is one atomic action.  Python dicts / OrderedDicts are *)
(* sequences of [name, value] pairs (insertion order matters).  Time is an *)
(* integer clock `now` advanced by Tick; all time.time() reads of one call *)
(* see the same `now`.  Entries whose deadline has passed are dropped by   *)
(* Tick: cacheout hides a key once expire_time <= now and diskcache once   *)
(* NOT (expire_time > now), so an expired entry is unobservable through   *)
(* the methods modelled here.                                              *)
(***************************************************************************)
EXTENDS Integers, Sequences, FiniteSets, TLC

VARIABLES cfg, now, mem, disk, loading, last, written, clean, faults, threads

vars == <<cfg, now, mem, disk, loading, last, written, clean, faults, threads>>

(***************************************************************************)
(* Bounds and configuration                                                *)
(***************************************************************************)
MaxTime == 1

MaxFaults == 1

ReliefLimit == 20

MemCanFitThreshold == 90

MemoryThresholdPercent == 90

MaxDiskUsagePercent == 90

CleanupLimit == 10

\* memory_max_item_bytes, as the tests pass it to the coordinator
MemoryMaxItemBytes == 1

UseParquet == TRUE

Sessions == {"s1", "s2"}

Items == {"a", "b"}

UsageLevels == {50, 95}

\* constructor arguments of HybridDataManager a run may start from
Config(max_sessions, max_items, memory_ttl, filesystem_ttl) ==
    [max_sessions |-> max_sessions, max_items |-> max_items,
     memory_ttl |-> memory_ttl, filesystem_ttl |-> filesystem_ttl]

Configs == {Config(1, 2, 1, 3)}

ItemCapConfigs == {Config(1, 1, 1, 3)}

(***************************************************************************)
(* Stored values.  A DataFrame carries its index kind, because the parquet *)
(* encoding used by the disk tier is written with index=False.             *)
(***************************************************************************)
None == [kind |-> "none", index |-> "-", body |-> 0]

DataFrame(index, body) == [kind |-> "df", index |-> index, body |-> body]

Opaque(body) == [kind |-> "obj", index |-> "-", body |-> body]

CorruptedString == [kind |-> "str", index |-> "-", body |-> 0]

Values == {DataFrame("custom", 1), Opaque(1)}

\* len(pickle.dumps(data)) as used for size estimates
PickleSize(v) == IF v.kind = "df" THEN 3 ELSE IF v.kind = "none" THEN 1 ELSE v.body

EstimateDataSize(v) == PickleSize(v)

\* DataFrames go through to_parquet(index=False); everything else is pickled
SerializeData(v) ==
    IF v.kind = "df" /\ UseParquet
    THEN [magic |-> "PAR1", payload |-> DataFrame("range", v.body), len |-> 2]
    ELSE [magic |-> "pickle", payload |-> v, len |-> PickleSize(v)]

DeserializeData(b, is_dataframe) ==
    IF is_dataframe /\ UseParquet THEN b.payload ELSE b.payload

IsDataValid(v) ==
    IF v.kind = "df" THEN TRUE
    ELSE IF v = CorruptedString THEN FALSE
    ELSE v # None

(***************************************************************************)
(* Ordered dictionaries                                                    *)
(***************************************************************************)
OdNames(od) == {od[k].name : k \in 1..Len(od)}

OdHas(od, n) == \E k \in 1..Len(od) : od[k].name = n

OdGet(od, n) ==
    IF OdHas(od, n) THEN (CHOOSE k \in 1..Len(od) : od[k].name = n) ELSE 0

OdValue(od, n) == IF OdHas(od, n) THEN od[OdGet(od, n)].value ELSE None

OdDel(od, n) == SelectSeq(od, LAMBDA e : e.name # n)

\* dict[n] = v : in place when the key exists, appended otherwise
OdPut(od, n, v) ==
    IF OdHas(od, n)
    THEN [k \in 1..Len(od) |-> IF od[k].name = n THEN [name |-> n, value |-> v] ELSE od[k]]
    ELSE Append(od, [name |-> n, value |-> v])

RECURSIVE OdSum(_)
OdSum(od) == IF od = <<>> THEN 0 ELSE Head(od).value + OdSum(Tail(od))

\* now + ttl; a deadline the clock cannot reach within MaxTime is recorded
\* as MaxTime + 1
Deadline(t, ttl) == IF t + ttl > MaxTime THEN MaxTime + 1 ELSE t + ttl

\* list.sort(key=lambda x: x[1]) : stable, ascending by last access
RECURSIVE InsertByTime(_, _)
InsertByTime(sorted, e) ==
    IF sorted = <<>> THEN <<e>>
    ELSE IF Head(sorted).last_access <= e.last_access
         THEN <<Head(sorted)>> \o InsertByTime(Tail(sorted), e)
         ELSE <<e>> \o sorted

RECURSIVE SortByTime(_)
SortByTime(s) ==
    IF s = <<>> THEN <<>>
    ELSE InsertByTime(SortByTime(SubSeq(s, 1, Len(s) - 1)), s[Len(s)])

Truncate(s, limit) == SubSeq(s, 1, IF Len(s) < limit THEN Len(s) ELSE limit)

(***************************************************************************)
(* Memory tier: TTLInMemoryDataManager over cacheout.Cache(maxsize, ttl).  *)
(* `m` is the cache in key order (cacheout keeps an OrderedDict and every  *)
(* set deletes and re-inserts the key); an entry is the session payload    *)
(* (data, last_access) together with its cacheout deadline.  The payload's *)
(* created_at is written once and never read, and is left out.             *)
(***************************************************************************)
MemIndex(m, sid) ==
    IF \E k \in 1..Len(m) : m[k].sid = sid
    THEN (CHOOSE k \in 1..Len(m) : m[k].sid = sid) ELSE 0

MemContains(m, sid) == MemIndex(m, sid) # 0

MemData(m, sid) == IF MemContains(m, sid) THEN m[MemIndex(m, sid)].data ELSE <<>>

MemSessionIds(m) == {m[k].sid : k \in 1..Len(m)}

\* cacheout Cache.full()
CacheFull(c, m) == c.max_sessions > 0 /\ Len(m) >= c.max_sessions

\* cacheout Cache.evict(): pop from the front of the key order while full
RECURSIVE CacheEvict(_, _)
CacheEvict(c, m) == IF CacheFull(c, m) /\ m # <<>> THEN CacheEvict(c, Tail(m)) ELSE m

CacheDelete(m, sid) == SelectSeq(m, LAMBDA e : e.sid # sid)

\* Variant of CacheSet that overwrites an existing key where it stands
CacheSetInPlace(c, m, sid, data, last_access, t) ==
    IF MemContains(m, sid)
    THEN [m EXCEPT ![MemIndex(m, sid)] =
            [sid |-> sid, data |-> data, last_access |-> last_access,
             expire |-> Deadline(t, c.memory_ttl)]]
    ELSE Append(CacheEvict(c, m),
                [sid |-> sid, data |-> data, last_access |-> last_access,
                 expire |-> Deadline(t, c.memory_ttl)])

\* cacheout Cache.set(key, value, ttl): evict only for a new key, then
\* delete and re-insert at the end with deadline now + ttl
CacheSet(c, m, sid, data, last_access, t) ==
    LET m1 == IF MemContains(m, sid) THEN m ELSE CacheEvict(c, m)
    IN  Append(CacheDelete(m1, sid),
               [sid |-> sid, data |-> data, last_access |-> last_access,
                expire |-> Deadline(t, c.memory_ttl)])

Touch(c, m, sid, data, t) == CacheSet(c, m, sid, data, t, t)

\* Variant of GetPayload that reads the payload without touching it
GetPayloadNoTouch(c, m, sid, t) == m

GetPayload(c, m, sid, t) ==
    IF MemContains(m, sid) THEN Touch(c, m, sid, MemData(m, sid), t) ELSE m

EnsurePayload(c, m, sid, t) ==
    LET m1 == IF MemContains(m, sid) THEN m ELSE CacheSet(c, m, sid, <<>>, t, t)
    IN  Touch(c, m1, sid, MemData(m1, sid), t)

RECURSIVE EnforceItemCap(_, _)
EnforceItemCap(c, od) ==
    IF Len(od) > c.max_items THEN EnforceItemCap(c, Tail(od)) ELSE od

\* Each Mem* operator gives the cache after the call; the value returned by
\* the call is given by the matching *Result operator on the cache before.
MemGetSessionData(c, m, sid, t) == EnsurePayload(c, m, sid, t)

MemGetSessionDataResult(m, sid) == MemData(m, sid)

MemSetSessionData(c, m, sid, data, t) ==
    LET m1 == EnsurePayload(c, m, sid, t)
    IN  Touch(c, m1, sid, EnforceItemCap(c, data), t)

MemGetDataframe(c, m, sid, t) == GetPayload(c, m, sid, t)

MemGetDataframeResult(m, sid, df_name) == OdValue(MemData(m, sid), df_name)

\* Variant of MemSetDataframe that overwrites an existing item where it
\* stands in the OrderedDict
MemSetDataframeInPlace(c, m, sid, df_name, v, t) ==
    LET m1 == EnsurePayload(c, m, sid, t)
        od == OdPut(MemData(m1, sid), df_name, v)
    IN  Touch(c, m1, sid, EnforceItemCap(c, od), t)

MemSetDataframe(c, m, sid, df_name, v, t) ==
    LET m1 == EnsurePayload(c, m, sid, t)
        od == Append(OdDel(MemData(m1, sid), df_name), [name |-> df_name, value |-> v])
    IN  Touch(c, m1, sid, EnforceItemCap(c, od), t)

MemHasSession(c, m, sid, t) == GetPayload(c, m, sid, t)

MemHasSessionResult(m, sid) == MemContains(m, sid)

MemRemoveSession(m, sid) == CacheDelete(m, sid)

MemGetSessionSize(c, m, sid, t) == GetPayload(c, m, sid, t)

RECURSIVE SumPickleSizes(_)
SumPickleSizes(od) ==
    IF od = <<>> THEN 0 ELSE PickleSize(Head(od).value) + SumPickleSizes(Tail(od))

MemGetSessionSizeResult(m, sid) == SumPickleSizes(MemData(m, sid))

MemCanFitInMemory(usage) == usage < MemCanFitThreshold

\* get_oldest_sessions reads every payload through _get_payload, which
\* touches it, before sorting
RECURSIVE TouchAll(_, _, _, _)
TouchAll(c, m, ids, t) ==
    IF ids = <<>> THEN m
    ELSE TouchAll(c, GetPayload(c, m, Head(ids), t), Tail(ids), t)

MemKeys(m) == [k \in 1..Len(m) |-> m[k].sid]

\* get_storage_stats reads every payload through _get_payload, and again
\* inside get_session_size
MemGetStorageStats(c, m, t) == TouchAll(c, TouchAll(c, m, MemKeys(m), t), MemKeys(m), t)

MemGetOldestSessions(c, m, t) == TouchAll(c, m, MemKeys(m), t)

MemGetOldestSessionsResult(c, m, t, limit) ==
    LET m1 == MemGetOldestSessions(c, m, t)
        times == [k \in 1..Len(m) |->
                    [sid |-> m[k].sid, last_access |-> m1[MemIndex(m1, m[k].sid)].last_access]]
    IN  Truncate(SortByTime(times), limit)

(***************************************************************************)
(* Disk tier: DiskCacheDataManager over two diskcache.Cache stores.        *)
(* d.blobs is _cache (key "data:<sid>:<name>", written with expire=ttl);   *)
(* d.meta is _metadata_cache in rowid order (key "metadata:<sid>", written *)
(* by __setitem__, that is without a deadline); d.ttl_seconds is the       *)
(* tier's _ttl_seconds.                                                    *)
(***************************************************************************)
NoBlob == [magic |-> "none", payload |-> None, len |-> 0, expire |-> 0]

GetDataKey(sid, df_name) == <<sid, df_name>>

BlobIn(blobs, sid, df_name) == blobs[GetDataKey(sid, df_name)] # NoBlob

BlobBytes(blobs, sid, df_name) ==
    [magic |-> blobs[GetDataKey(sid, df_name)].magic,
     payload |-> blobs[GetDataKey(sid, df_name)].payload,
     len |-> blobs[GetDataKey(sid, df_name)].len]

\* _cache.set(key, bytes, expire=ttl)
BlobSet(blobs, sid, df_name, bytes, expire) ==
    [blobs EXCEPT ![GetDataKey(sid, df_name)] =
        [magic |-> bytes.magic, payload |-> bytes.payload, len |-> bytes.len,
         expire |-> expire]]

\* _cache.touch(key, expire=ttl)
BlobTouch(blobs, sid, df_name, expire) ==
    IF BlobIn(blobs, sid, df_name)
    THEN [blobs EXCEPT ![GetDataKey(sid, df_name)].expire = expire]
    ELSE blobs

BlobDelete(blobs, sid, df_name) == [blobs EXCEPT ![GetDataKey(sid, df_name)] = NoBlob]

MetaIndex(meta, sid) ==
    IF \E k \in 1..Len(meta) : meta[k].session_id = sid
    THEN (CHOOSE k \in 1..Len(meta) : meta[k].session_id = sid) ELSE 0

MetaContains(meta, sid) == MetaIndex(meta, sid) # 0

NewMetadata(sid, t) ==
    [session_id |-> sid, last_access |-> t, total_size_bytes |-> 0,
     item_count |-> 0, item_sizes |-> <<>>]

MetaGet(meta, sid, t) ==
    IF MetaContains(meta, sid) THEN meta[MetaIndex(meta, sid)] ELSE NewMetadata(sid, t)

\* Variant of MetaStore that only rewrites rows that already exist
MetaStoreExistingOnly(meta, md) ==
    IF MetaContains(meta, md.session_id)
    THEN [meta EXCEPT ![MetaIndex(meta, md.session_id)] = md]
    ELSE meta

\* _metadata_cache[key] = metadata : an existing row keeps its rowid
MetaStore(meta, md) ==
    IF MetaContains(meta, md.session_id)
    THEN [meta EXCEPT ![MetaIndex(meta, md.session_id)] = md]
    ELSE Append(meta, md)

MetaDelete(meta, sid) == SelectSeq(meta, LAMBDA md : md.session_id # sid)

UpdateSessionMetadata(meta, sid, df_name, data_size, t) ==
    LET md == MetaGet(meta, sid, t)
        sizes == OdPut(md.item_sizes, df_name, data_size)
    IN  MetaStore(meta, [md EXCEPT !.last_access = t,
                                   !.item_sizes = sizes,
                                   !.item_count = Len(sizes),
                                   !.total_size_bytes = OdSum(sizes)])

\* set_dataframe; `stage` names where an I/O failure strikes:
\* "none" (no failure), "blob" (serialising or storing the blob raises),
\* "meta" (the blob is stored, the metadata update raises)
FsSetDataframe(d, sid, df_name, v, t, stage) ==
    LET bytes == SerializeData(v)
    IN  IF stage = "blob" THEN d
        ELSE IF stage = "meta"
        THEN [d EXCEPT !.blobs = BlobSet(d.blobs, sid, df_name, bytes, Deadline(t, d.ttl_seconds))]
        ELSE [d EXCEPT !.blobs = BlobSet(d.blobs, sid, df_name, bytes, Deadline(t, d.ttl_seconds)),
                       !.meta = UpdateSessionMetadata(d.meta, sid, df_name, bytes.len, t)]

\* set_session_data: one set_dataframe per item, in dict order; the write
\* of item number fault.at fails at fault.stage (fault.at = 0: no failure)
RECURSIVE FsSetSessionDataFrom(_, _, _, _, _, _)
FsSetSessionDataFrom(d, sid, data, t, fault, k) ==
    IF k > Len(data) THEN d
    ELSE IF fault.at = k
         THEN FsSetDataframe(d, sid, data[k].name, data[k].value, t, fault.stage)
         ELSE FsSetSessionDataFrom(
                  FsSetDataframe(d, sid, data[k].name, data[k].value, t, "none"),
                  sid, data, t, fault, k + 1)

FsSetSessionData(d, sid, data, t, fault) == FsSetSessionDataFrom(d, sid, data, t, fault, 1)

FsSetSessionDataRaises(data, fault) == fault.at \in 1..Len(data)

\* get_session_data: every listed item whose blob is readable is decoded,
\* its deadline refreshed and the metadata rewritten
RECURSIVE FsGetSessionDataFrom(_, _, _, _, _)
FsGetSessionDataFrom(d, sid, names, t, k) ==
    IF k > Len(names) THEN d
    ELSE LET n == names[k].name
             d1 == IF BlobIn(d.blobs, sid, n)
                   THEN [d EXCEPT !.blobs = BlobTouch(d.blobs, sid, n, Deadline(t, d.ttl_seconds)),
                                  !.meta = UpdateSessionMetadata(d.meta, sid, n,
                                               BlobBytes(d.blobs, sid, n).len, t)]
                   ELSE d
         IN  FsGetSessionDataFrom(d1, sid, names, t, k + 1)

FsGetSessionData(d, sid, t) ==
    IF MetaContains(d.meta, sid)
    THEN FsGetSessionDataFrom(d, sid, MetaGet(d.meta, sid, t).item_sizes, t, 1)
    ELSE d

FsGetSessionDataResult(d, sid) ==
    IF MetaContains(d.meta, sid)
    THEN LET names == MetaGet(d.meta, sid, 0).item_sizes
             readable == SelectSeq(names, LAMBDA e : BlobIn(d.blobs, sid, e.name))
         IN  [k \in 1..Len(readable) |->
                 [name |-> readable[k].name,
                  value |-> DeserializeData(BlobBytes(d.blobs, sid, readable[k].name),
                               BlobBytes(d.blobs, sid, readable[k].name).magic = "PAR1")]]
    ELSE <<>>

FsGetDataframe(d, sid, df_name, t) ==
    IF BlobIn(d.blobs, sid, df_name)
    THEN [d EXCEPT !.blobs = BlobTouch(d.blobs, sid, df_name, Deadline(t, d.ttl_seconds)),
                   !.meta = UpdateSessionMetadata(d.meta, sid, df_name,
                                BlobBytes(d.blobs, sid, df_name).len, t)]
    ELSE d

FsGetDataframeResult(d, sid, df_name) ==
    IF BlobIn(d.blobs, sid, df_name)
    THEN DeserializeData(BlobBytes(d.blobs, sid, df_name),
                         BlobBytes(d.blobs, sid, df_name).magic = "PAR1")
    ELSE None

FsHasSession(d, sid) == MetaContains(d.meta, sid)

RECURSIVE BlobDeleteAll(_, _, _)
BlobDeleteAll(blobs, sid, names) ==
    IF names = <<>> THEN blobs
    ELSE BlobDeleteAll(BlobDelete(blobs, sid, Head(names).name), sid, Tail(names))

FsRemoveSession(d, sid) ==
    IF MetaContains(d.meta, sid)
    THEN [d EXCEPT !.blobs = BlobDeleteAll(d.blobs, sid, MetaGet(d.meta, sid, 0).item_sizes),
                   !.meta = MetaDelete(d.meta, sid)]
    ELSE d

\* get_oldest_sessions: the metadata rows in iteration order, sorted by
\* last access, cut to limit
FsGetOldestSessionsResult(d, limit) ==
    Truncate(SortByTime([k \in 1..Len(d.meta) |->
                            [sid |-> d.meta[k].session_id,
                             last_access |-> d.meta[k].last_access]]),
             limit)

\* A metadata row is decodable unless its stored bytes cannot be unpickled;
\* reading an undecodable row (_metadata_cache[key]) raises, testing for
\* its key does not
Decodable(md) == "undecodable" \notin DOMAIN md

\* get_oldest_sessions reads every row outside any try block
FsGetOldestSessionsRaises(d) == \E k \in 1..Len(d.meta) : ~Decodable(d.meta[k])

\* Variant of FsGetStorageStats that skips an undecodable row without
\* deleting it
FsGetStorageStatsNoHeal(d, delFails) ==
    LET valid == SelectSeq(d.meta, Decodable)
    IN  [d |-> d,
         raised |-> FALSE,
         result |-> [total_sessions |-> Len(d.meta),
                     total_items |-> OdSum([k \in 1..Len(valid) |->
                                              [value |-> Len(valid[k].item_sizes)]]),
                     total_size_bytes |-> OdSum([k \in 1..Len(valid) |->
                                              [value |-> valid[k].total_size_bytes]])]]

\* get_storage_stats: every key is counted as a session before its row is
\* read; a row that fails to decode is deleted (unless the deletion fails
\* too) and skipped
FsGetStorageStats(d, delFails) ==
    LET valid == SelectSeq(d.meta, Decodable)
    IN  [d |-> IF delFails THEN d ELSE [d EXCEPT !.meta = valid],
         raised |-> FALSE,
         result |-> [total_sessions |-> Len(d.meta),
                     total_items |-> OdSum([k \in 1..Len(valid) |->
                                              [value |-> Len(valid[k].item_sizes)]]),
                     total_size_bytes |-> OdSum([k \in 1..Len(valid) |->
                                              [value |-> valid[k].total_size_bytes]])]]

\* get_all_session_ids: the ids of the rows that decode, healing as above
FsGetAllSessionIds(d, delFails) ==
    LET valid == SelectSeq(d.meta, Decodable)
    IN  [d |-> IF delFails THEN d ELSE [d EXCEPT !.meta = valid],
         raised |-> FALSE,
         result |-> [k \in 1..Len(valid) |-> valid[k].session_id]]

\* the for-loop of _emergency_cleanup; usage[k] is the disk reading taken
\* after the k-th removal
RECURSIVE FsCleanupLoop(_, _, _, _)
FsCleanupLoop(d, oldest, k, usage) ==
    IF k > Len(oldest) THEN d
    ELSE IF usage[k] < MaxDiskUsagePercent THEN FsRemoveSession(d, oldest[k].sid)
    ELSE FsCleanupLoop(FsRemoveSession(d, oldest[k].sid), oldest, k + 1, usage)

FsEmergencyCleanup(d, usage) ==
    IF FsGetOldestSessionsRaises(d) THEN [d |-> d, raised |-> TRUE]
    ELSE [d |-> FsCleanupLoop(d, FsGetOldestSessionsResult(d, CleanupLimit), 1, usage),
          raised |-> FALSE]

FsGetSessionSize(d, sid) ==
    IF MetaContains(d.meta, sid) THEN MetaGet(d.meta, sid, 0).total_size_bytes ELSE 0

(***************************************************************************)
(* Coordinator: HybridDataManager.  `st` is [mem, disk, loading]; `env`    *)
(* holds the psutil readings one call makes (fit1, fit2: the readings of   *)
(* the two can_fit_in_memory calls, relief[k]: the reading after the k-th  *)
(* eviction of a relief pass).  Read faults: "all" makes every method of   *)
(* that tier raise on entry during the call, "load" makes only the tier's  *)
(* part of the lazy-load copy raise.                                       *)
(***************************************************************************)
MaxReliefReads == Cardinality(Sessions)

CheckMemoryPressure(usage) == usage >= MemoryThresholdPercent

\* Variant of ReliefLoop that evicts from the tail of the list
ReliefLoopNewestFirst(c, st, oldest, k, n, freed_size, required_size, env, t) ==
    IF oldest = <<>> THEN st
    ELSE [st EXCEPT !.mem = MemRemoveSession(st.mem, oldest[Len(oldest)].sid)]

\* Variant of ReliefLoop without the two break statements: every candidate
\* that is not loading is evicted
ReliefLoopWithoutBreak(c, st, oldest, k, n, freed_size, required_size, env, t) ==
    [st EXCEPT !.mem =
        SelectSeq(@, LAMBDA e : e.sid \in st.loading
                                 \/ \A j \in 1..Len(oldest) : oldest[j].sid # e.sid)]

\* the for-loop of _relieve_memory_pressure over oldest_sessions[k..];
\* n counts the evictions made so far
RECURSIVE ReliefLoop(_, _, _, _, _, _, _, _, _)
ReliefLoop(c, st, oldest, k, n, freed_size, required_size, env, t) ==
    IF k > Len(oldest) THEN st
    ELSE IF oldest[k].sid \in st.loading
         THEN ReliefLoop(c, st, oldest, k + 1, n, freed_size, required_size, env, t)
         ELSE LET sid == oldest[k].sid
                  m1 == MemGetSessionSize(c, st.mem, sid, t)
                  session_size == MemGetSessionSizeResult(st.mem, sid)
                  st1 == [st EXCEPT !.mem = MemRemoveSession(m1, sid)]
                  freed == freed_size + session_size
              IN  IF required_size > 0 /\ freed >= required_size THEN st1
                  ELSE IF ~CheckMemoryPressure(env.relief[n + 1]) THEN st1
                  ELSE ReliefLoop(c, st1, oldest, k + 1, n + 1, freed, required_size, env, t)

\* Variant of RelieveMemoryPressure that evicts through the coordinator's
\* own remove_session, which removes the session from the disk tier as well
RelieveMemoryPressureBothTiers(c, st, required_size, env, t) ==
    LET oldest == MemGetOldestSessionsResult(c, st.mem, t, ReliefLimit)
        st1 == [st EXCEPT !.mem = MemGetOldestSessions(c, st.mem, t)]
        r == ReliefLoop(c, st1, oldest, 1, 0, 0, required_size, env, t)
        evicted == {sid \in Sessions : MemContains(st1.mem, sid) /\ ~MemContains(r.mem, sid)}
    IN  [r EXCEPT !.disk.blobs = [k \in DOMAIN @ |-> IF k[1] \in evicted THEN NoBlob ELSE @[k]],
                  !.disk.meta = SelectSeq(@, LAMBDA md : md.session_id \notin evicted)]

RelieveMemoryPressure(c, st, required_size, env, t) ==
    LET oldest == MemGetOldestSessionsResult(c, st.mem, t, ReliefLimit)
        st1 == [st EXCEPT !.mem = MemGetOldestSessions(c, st.mem, t)]
    IN  ReliefLoop(c, st1, oldest, 1, 0, 0, required_size, env, t)

\* _load_session_from_disk: gives the state after the call, the value
\* returned (r), whether an exception left the method (raised) and the
\* branch taken (path)
LoadOutcome(st, r, raised, path) == [st |-> st, r |-> r, raised |-> raised, path |-> path]

\* Variant of LoadCopy that discards the marker on the return inside the
\* try-block only, not in a finally-block
LoadCopyNoFinally(c, st, sid, env, t, memFault, fsFault) ==
    LET marked == [st EXCEPT !.loading = @ \cup {sid}]
        done(x) == [x EXCEPT !.loading = @ \ {sid}]
    IN  IF fsFault = "load" THEN LoadOutcome(marked, FALSE, FALSE, "load_error")
        ELSE LET session_data == FsGetSessionDataResult(st.disk, sid)
                 read == [marked EXCEPT !.disk = FsGetSessionData(st.disk, sid, t)]
             IN  IF session_data = <<>> THEN LoadOutcome(read, FALSE, FALSE, "empty")
                 ELSE IF memFault = "load"
                      THEN LoadOutcome(read, FALSE, FALSE, "load_error")
                      ELSE LoadOutcome(
                               done([read EXCEPT !.mem =
                                        MemSetSessionData(c, read.mem, sid, session_data, t)]),
                               TRUE, FALSE, "loaded")

LoadCopy(c, st, sid, env, t, memFault, fsFault) ==
    LET marked == [st EXCEPT !.loading = @ \cup {sid}]
        done(x) == [x EXCEPT !.loading = @ \ {sid}]
    IN  IF fsFault = "load" THEN LoadOutcome(done(marked), FALSE, FALSE, "load_error")
        ELSE LET session_data == FsGetSessionDataResult(st.disk, sid)
                 read == [marked EXCEPT !.disk = FsGetSessionData(st.disk, sid, t)]
             IN  IF session_data = <<>> THEN LoadOutcome(done(read), FALSE, FALSE, "empty")
                 ELSE IF memFault = "load"
                      THEN LoadOutcome(done(read), FALSE, FALSE, "load_error")
                      ELSE LoadOutcome(
                               done([read EXCEPT !.mem =
                                        MemSetSessionData(c, read.mem, sid, session_data, t)]),
                               TRUE, FALSE, "loaded")

\* _load_session_from_disk at `self._loading_sessions.add(session_id)`, for
\* a session that is on disk and not in memory: the relief pass, if one
\* was needed, is over and the copy has not begun
LoadMarker(c, st, sid, env, t) ==
    LET base == IF MemCanFitInMemory(env.fit1) THEN st
                ELSE RelieveMemoryPressure(c, st, FsGetSessionSize(st.disk, sid), env, t)
    IN  [base EXCEPT !.loading = @ \cup {sid}]

\* Variant of LoadSessionFromDisk without the second can_fit_in_memory check
LoadSessionFromDiskNoRecheck(c, st, sid, env, t, memFault, fsFault) ==
    IF sid \in st.loading THEN LoadOutcome(st, FALSE, FALSE, "loading")
    ELSE IF fsFault = "all" THEN LoadOutcome(st, FALSE, TRUE, "raised")
    ELSE IF ~FsHasSession(st.disk, sid) THEN LoadOutcome(st, FALSE, FALSE, "not_on_disk")
    ELSE IF memFault = "all" THEN LoadOutcome(st, FALSE, TRUE, "raised")
    ELSE IF MemHasSessionResult(st.mem, sid)
         THEN LoadOutcome([st EXCEPT !.mem = MemHasSession(c, st.mem, sid, t)],
                          TRUE, FALSE, "resident")
    ELSE IF MemCanFitInMemory(env.fit1)
         THEN LoadCopy(c, st, sid, env, t, memFault, fsFault)
         ELSE LoadCopy(c, RelieveMemoryPressure(c, st, FsGetSessionSize(st.disk, sid), env, t),
                       sid, env, t, memFault, fsFault)

LoadSessionFromDisk(c, st, sid, env, t, memFault, fsFault) ==
    IF sid \in st.loading THEN LoadOutcome(st, FALSE, FALSE, "loading")
    ELSE IF fsFault = "all" THEN LoadOutcome(st, FALSE, TRUE, "raised")
    ELSE IF ~FsHasSession(st.disk, sid) THEN LoadOutcome(st, FALSE, FALSE, "not_on_disk")
    ELSE IF memFault = "all" THEN LoadOutcome(st, FALSE, TRUE, "raised")
    ELSE IF MemHasSessionResult(st.mem, sid)
         THEN LoadOutcome([st EXCEPT !.mem = MemHasSession(c, st.mem, sid, t)],
                          TRUE, FALSE, "resident")
    ELSE LET session_size == FsGetSessionSize(st.disk, sid)
         IN  IF MemCanFitInMemory(env.fit1)
             THEN LoadCopy(c, st, sid, env, t, memFault, fsFault)
             ELSE LET relieved == RelieveMemoryPressure(c, st, session_size, env, t)
                  IN  IF ~MemCanFitInMemory(env.fit2)
                      THEN LoadOutcome(relieved, FALSE, FALSE, "no_fit")
                      ELSE LoadCopy(c, relieved, sid, env, t, memFault, fsFault)

\* force_load_session_to_memory: relief holds the readings taken by the
\* relief pass made before the load, env the readings of the load itself.
\* The call returns True on the paths "loaded" and "resident" only.
HybridForceLoadSessionToMemory(c, st, sid, relief, env, t) ==
    IF ~FsHasSession(st.disk, sid) THEN LoadOutcome(st, FALSE, FALSE, "not_on_disk")
    ELSE LET session_size == FsGetSessionSize(st.disk, sid)
             relieved == RelieveMemoryPressure(c, st, session_size,
                                               [env EXCEPT !.relief = relief], t)
         IN  LoadSessionFromDisk(c, relieved, sid, env, t, "none", "none")

\* What a coordinator call hands back: the state it leaves, the value it
\* returns, whether it raised, and the branch that produced the result
Outcome(st, result, raised, path) ==
    [st |-> st, result |-> result, raised |-> raised, path |-> path]

\* get_dataframe, first try-block: the memory tier.  done = TRUE when the
\* block returned a value to the caller.
MemoryFirst(c, st, sid, df_name, t, memFault) ==
    IF memFault = "all" THEN [st |-> st, done |-> FALSE, result |-> None]
    ELSE IF ~MemHasSessionResult(st.mem, sid) THEN [st |-> st, done |-> FALSE, result |-> None]
    ELSE LET m1 == MemGetDataframe(c, MemHasSession(c, st.mem, sid, t), sid, t)
             data == MemGetDataframeResult(st.mem, sid, df_name)
         IN  IF data = None THEN [st |-> [st EXCEPT !.mem = m1], done |-> FALSE, result |-> None]
             ELSE IF IsDataValid(data)
                  THEN [st |-> [st EXCEPT !.mem = m1], done |-> TRUE, result |-> data]
                  ELSE [st |-> [st EXCEPT !.mem = MemRemoveSession(m1, sid)],
                        done |-> FALSE, result |-> None]

\* Variant of DirectDiskRead without the exception handler
DirectDiskReadUnguarded(st, sid, df_name, t, fsFault, path) ==
    IF fsFault = "all" THEN Outcome(st, None, TRUE, path)
    ELSE Outcome([st EXCEPT !.disk = FsGetDataframe(st.disk, sid, df_name, t)],
                 FsGetDataframeResult(st.disk, sid, df_name), FALSE, path)

\* get_dataframe, last try-block: direct disk access, None on any exception
DirectDiskRead(st, sid, df_name, t, fsFault, path) ==
    IF fsFault = "all" THEN Outcome(st, None, FALSE, path)
    ELSE Outcome([st EXCEPT !.disk = FsGetDataframe(st.disk, sid, df_name, t)],
                 FsGetDataframeResult(st.disk, sid, df_name), FALSE, path)

HybridGetDataframe(c, st, sid, df_name, env, t, memFault, fsFault) ==
    LET first == MemoryFirst(c, st, sid, df_name, t, memFault)
    IN  IF first.done THEN Outcome(first.st, first.result, FALSE, "memory")
        ELSE LET load == LoadSessionFromDisk(c, first.st, sid, env, t, memFault, fsFault)
             IN  IF load.r /\ ~load.raised
                 THEN Outcome([load.st EXCEPT !.mem = MemGetDataframe(c, load.st.mem, sid, t)],
                              MemGetDataframeResult(load.st.mem, sid, df_name),
                              FALSE, load.path)
                 ELSE DirectDiskRead(load.st, sid, df_name, t, fsFault, load.path)

\* get_session_data has no exception handler of its own
HybridGetSessionData(c, st, sid, env, t, memFault, fsFault) ==
    IF memFault = "all" THEN Outcome(st, <<>>, TRUE, "raised")
    ELSE IF MemHasSessionResult(st.mem, sid)
    THEN Outcome([st EXCEPT !.mem = MemGetSessionData(c, MemHasSession(c, st.mem, sid, t), sid, t)],
                 MemGetSessionDataResult(st.mem, sid), FALSE, "memory")
    ELSE LET load == LoadSessionFromDisk(c, st, sid, env, t, memFault, fsFault)
         IN  IF load.raised THEN Outcome(load.st, <<>>, TRUE, "raised")
             ELSE IF load.r
             THEN Outcome([load.st EXCEPT !.mem = MemGetSessionData(c, load.st.mem, sid, t)],
                          MemGetSessionDataResult(load.st.mem, sid), FALSE, load.path)
             ELSE IF fsFault = "all" THEN Outcome(load.st, <<>>, TRUE, "raised")
             ELSE Outcome([load.st EXCEPT !.disk = FsGetSessionData(load.st.disk, sid, t)],
                          FsGetSessionDataResult(load.st.disk, sid), FALSE, load.path)

\* Write faults: memFault = TRUE makes the memory tier's set method raise
\* on entry; fsFault = [at, stage] as in FsSetSessionData.
NoError == ""

NoFsFault == [at |-> 0, stage |-> "none"]

MemoryCause == "mem write fail"

FilesystemCause(fault) == IF fault.stage = "meta" THEN "metadata write fail" ELSE "disk write fail"

\* The RuntimeError of the write path, by the two causes its message embeds
CombinedError(memory_error, filesystem_error) ==
    [text |-> "Both memory and filesystem writes failed",
     memory |-> memory_error, filesystem |-> filesystem_error]

NoException == [text |-> "", memory |-> NoError, filesystem |-> NoError]

\* Variant of BothFailed that raises as soon as one tier failed
EitherFailed(memory_error, filesystem_error) ==
    memory_error # NoError \/ filesystem_error # NoError

BothFailed(memory_error, filesystem_error) ==
    memory_error # NoError /\ filesystem_error # NoError

WriteOutcome(st, memory_error, filesystem_error) ==
    [st |-> st, memory_error |-> memory_error, filesystem_error |-> filesystem_error,
     raised |-> BothFailed(memory_error, filesystem_error),
     error |-> IF BothFailed(memory_error, filesystem_error)
               THEN CombinedError(memory_error, filesystem_error) ELSE NoException]

HybridSetSessionData(c, st, sid, data, t, memFault, fsFault) ==
    LET st1 == IF memFault THEN st
               ELSE [st EXCEPT !.mem = MemSetSessionData(c, st.mem, sid, data, t)]
        st2 == [st1 EXCEPT !.disk = FsSetSessionData(st1.disk, sid, data, t, fsFault)]
    IN  WriteOutcome(st2,
                     IF memFault THEN MemoryCause ELSE NoError,
                     IF FsSetSessionDataRaises(data, fsFault)
                     THEN FilesystemCause(fsFault) ELSE NoError)

\* Variant of HybridSetDataframe that relieves memory pressure after the
\* two writes instead of before them
HybridSetDataframeReliefLast(c, st, sid, df_name, v, env, t, memFault, fsFault) ==
    LET data_size == EstimateDataSize(v)
        st1 == IF memFault THEN st
               ELSE [st EXCEPT !.mem = MemSetDataframe(c, st.mem, sid, df_name, v, t)]
        st2 == [st1 EXCEPT !.disk =
                   FsSetDataframe(st1.disk, sid, df_name, v, t,
                                  IF fsFault.at = 1 THEN fsFault.stage ELSE "none")]
        st3 == IF MemCanFitInMemory(env.fit1) THEN st2
               ELSE RelieveMemoryPressure(c, st2, data_size, env, t)
    IN  WriteOutcome(st3,
                     IF memFault THEN MemoryCause ELSE NoError,
                     IF fsFault.at = 1 THEN FilesystemCause(fsFault) ELSE NoError)

HybridSetDataframe(c, st, sid, df_name, v, env, t, memFault, fsFault) ==
    LET data_size == EstimateDataSize(v)
        st0 == IF MemCanFitInMemory(env.fit1) THEN st
               ELSE RelieveMemoryPressure(c, st, data_size, env, t)
        st1 == IF memFault THEN st0
               ELSE [st0 EXCEPT !.mem = MemSetDataframe(c, st0.mem, sid, df_name, v, t)]
        st2 == [st1 EXCEPT !.disk =
                   FsSetDataframe(st1.disk, sid, df_name, v, t,
                                  IF fsFault.at = 1 THEN fsFault.stage ELSE "none")]
    IN  WriteOutcome(st2,
                     IF memFault THEN MemoryCause ELSE NoError,
                     IF fsFault.at = 1 THEN FilesystemCause(fsFault) ELSE NoError)

HybridHasSession(c, st, sid, t) == [st EXCEPT !.mem = MemHasSession(c, st.mem, sid, t)]

HybridHasSessionResult(st, sid) == MemHasSessionResult(st.mem, sid) \/ FsHasSession(st.disk, sid)

HybridRemoveSession(st, sid) ==
    [st EXCEPT !.mem = MemRemoveSession(st.mem, sid),
               !.disk = FsRemoveSession(st.disk, sid)]

HybridCanFitInMemory(c, st, additional_size, env, t) ==
    IF MemCanFitInMemory(env.fit1) THEN st
    ELSE RelieveMemoryPressure(c, st, additional_size, env, t)

HybridCanFitInMemoryResult(env) == MemCanFitInMemory(env.fit1) \/ MemCanFitInMemory(env.fit2)

\* get_oldest_sessions: both tiers' lists concatenated, sorted, cut to limit
HybridGetOldestSessions(c, st, t) == [st EXCEPT !.mem = MemGetOldestSessions(c, st.mem, t)]

HybridGetOldestSessionsResult(c, st, t, limit) ==
    Truncate(SortByTime(MemGetOldestSessionsResult(c, st.mem, t, limit)
                        \o FsGetOldestSessionsResult(st.disk, limit)),
             limit)

(***************************************************************************)
(* State machine                                                           *)
(***************************************************************************)
Unknown == [kind |-> "unknown", index |-> "-", body |-> 0]

Keys == Sessions \X Items

Calm == CHOOSE u \in UsageLevels : u < MemCanFitThreshold

High == CHOOSE u \in UsageLevels : u >= MemCanFitThreshold

\* Readings of one call.  When the first can_fit_in_memory reading is calm
\* no other reading is taken; otherwise the later readings are either all
\* calm (the relief pass helped) or all high.
Envs ==
    {[fit1 |-> Calm, fit2 |-> Calm, relief |-> [k \in 1..MaxReliefReads |-> Calm]]}
    \cup {[fit1 |-> High, fit2 |-> f, relief |-> [k \in 1..MaxReliefReads |-> f]] :
            f \in UsageLevels}

\* a write takes the first reading and the relief readings after it
WriteEnvs == Envs

ReadFaults == {"none", "all"}

WriteFaults == {NoFsFault} \cup [at : 1..Cardinality(Items), stage : {"blob", "meta"}]

\* The payloads callers write to each item
ValuesOf(sid, df_name) ==
    IF sid = "s1" /\ df_name = "a" THEN Values
    ELSE IF df_name = "a" THEN {Opaque(1)}
    ELSE IF sid = "s1" THEN {Opaque(2)}
    ELSE {}

\* dicts a caller may pass to set_session_data: distinct names, in any order
SessionDataChoices(sid) ==
    {<<>>}
    \cup UNION {{<<[name |-> n, value |-> v]>> : v \in ValuesOf(sid, n)} : n \in Items}
    \cup UNION {{<<[name |-> p[1], value |-> v1], [name |-> p[2], value |-> v2]>> :
                    v1 \in ValuesOf(sid, p[1]), v2 \in ValuesOf(sid, p[2])} :
                 p \in {q \in Items \X Items : q[1] # q[2]}}

State == [mem |-> mem, disk |-> disk, loading |-> loading]

\* The call that produced the current state: the method, its session, for
\* set_dataframe the item and value written, the branch that produced its
\* result and whether it raised
Call(op, sid, item, value, path, raised) ==
    [op |-> op, sid |-> sid, item |-> item, value |-> value, path |-> path,
     raised |-> raised]

PlainCall(op, sid) == Call(op, sid, "-", None, "-", FALSE)

WritePath(out) ==
    IF out.raised THEN "both_failed"
    ELSE IF out.memory_error # NoError THEN "memory_failed"
    ELSE IF out.filesystem_error # NoError THEN "filesystem_failed"
    ELSE "ok"

NothingWritten == [k \in Keys |-> None]

NothingKnown == [k \in Keys |-> Unknown]

Committed(k) == written[k] # None /\ written[k] # Unknown

\* The threads that call the coordinator: what each one called and where it
\* is (idle, waiting for self._lock, or returned with value)
Threads == {"reader", "writer"}

NoCalls ==
    [th \in Threads |->
        [pc |-> "idle", sid |-> "-", item |-> "-", value |-> None, old |-> None]]

InitWith(configs) ==
    /\ cfg \in configs
    /\ now = 0
    /\ mem = <<>>
    /\ disk = [blobs |-> [k \in Keys |-> NoBlob], meta |-> <<>>,
               ttl_seconds |-> cfg.filesystem_ttl]
    /\ loading = {}
    /\ last = PlainCall("init", "-")
    /\ written = NothingWritten
    /\ clean = TRUE
    /\ faults = 0
    /\ threads = NoCalls

Init == InitWith(Configs)

\* Each action evaluates the method once and installs what it gives
CommitCall(out, call, stillClean, w, induced) ==
    /\ induced => faults < MaxFaults
    /\ mem' = out.st.mem
    /\ disk' = out.st.disk
    /\ loading' = out.st.loading
    /\ last' = call
    /\ clean' = (clean /\ stillClean)
    /\ written' = IF clean /\ stillClean THEN w ELSE NothingKnown
    /\ faults' = IF induced THEN faults + 1 ELSE faults
    /\ UNCHANGED <<cfg, now>>

\* a call made outside the reader and writer threads
Commit(out, call, stillClean, w, induced) ==
    CommitCall(out, call, stillClean, w, induced) /\ UNCHANGED threads

SetDataframe(sid, df_name, v, env, memFault, fsFault) ==
    \E out \in {HybridSetDataframe(cfg, State, sid, df_name, v, env, now, memFault, fsFault)} :
        Commit(out, Call("set_dataframe", sid, df_name, v, WritePath(out), out.raised),
               ~(memFault \/ fsFault # NoFsFault),
               [written EXCEPT ![<<sid, df_name>>] = v],
               memFault \/ fsFault # NoFsFault)

SetSessionData(sid, data, memFault, fsFault) ==
    \E out \in {HybridSetSessionData(cfg, State, sid, data, now, memFault, fsFault)} :
        Commit(out, Call("set_session_data", sid, "-", None, WritePath(out), out.raised),
               ~(memFault \/ fsFault # NoFsFault),
               [k \in Keys |->
                  IF k[1] # sid THEN written[k]
                  ELSE IF OdHas(data, k[2]) THEN OdValue(data, k[2])
                  ELSE IF written[k] = None THEN None ELSE Unknown],
               memFault \/ fsFault # NoFsFault)

GetDataframe(sid, df_name, env, memFault, fsFault) ==
    \E out \in {HybridGetDataframe(cfg, State, sid, df_name, env, now, memFault, fsFault)} :
        Commit(out, Call("get_dataframe", sid, "-", None, out.path, out.raised),
               memFault = "none" /\ fsFault = "none", written,
               memFault # "none" \/ fsFault # "none")

GetSessionData(sid, env, memFault, fsFault) ==
    \E out \in {HybridGetSessionData(cfg, State, sid, env, now, memFault, fsFault)} :
        Commit(out, Call("get_session_data", sid, "-", None, out.path, out.raised),
               memFault = "none" /\ fsFault = "none", written,
               memFault # "none" \/ fsFault # "none")

HasSession(sid) ==
    \E st \in {HybridHasSession(cfg, State, sid, now)} :
        Commit([st |-> st], PlainCall("has_session", sid), TRUE, written, FALSE)

RemoveSession(sid) ==
    \E st \in {HybridRemoveSession(State, sid)} :
        Commit([st |-> st],
               Call("remove_session", sid, "-", None,
                    IF MemContains(mem, sid) \/ FsHasSession(disk, sid)
                    THEN "removed" ELSE "absent", FALSE),
               TRUE,
               [k \in Keys |-> IF k[1] = sid THEN None ELSE written[k]], FALSE)

CanFitInMemory(sid, additional_size, env) ==
    \E st \in {HybridCanFitInMemory(cfg, State, additional_size, env, now)} :
        Commit([st |-> st], PlainCall("can_fit_in_memory", sid), TRUE, written, FALSE)

\* Time passes: cacheout drops a key once expire <= now, diskcache once
\* NOT (expire > now)
ExpiredKeys(t) == {k \in Keys : disk.blobs[k] # NoBlob /\ ~(disk.blobs[k].expire > t)}

Tick ==
    /\ now < MaxTime
    /\ now' = now + 1
    /\ mem' = SelectSeq(mem, LAMBDA e : ~(e.expire <= now + 1))
    /\ disk' = [disk EXCEPT !.blobs =
                  [k \in Keys |-> IF k \in ExpiredKeys(now + 1) THEN NoBlob ELSE disk.blobs[k]]]
    /\ last' = PlainCall("tick", "-")
    /\ clean' = (clean /\ ExpiredKeys(now + 1) = {})
    /\ written' = IF clean /\ ExpiredKeys(now + 1) = {} THEN written ELSE NothingKnown
    /\ UNCHANGED <<cfg, loading, faults, threads>>

\* Calls without induced failures
Next ==
    \/ \E sid \in Sessions, df_name \in Items, env \in WriteEnvs :
            \E v \in ValuesOf(sid, df_name) :
                SetDataframe(sid, df_name, v, env, FALSE, NoFsFault)
    \/ \E sid \in Sessions : \E data \in SessionDataChoices(sid) :
            SetSessionData(sid, data, FALSE, NoFsFault)
    \/ \E sid \in Sessions, df_name \in Items, env \in Envs :
            GetDataframe(sid, df_name, env, "none", "none")
    \/ \E sid \in Sessions, env \in Envs : GetSessionData(sid, env, "none", "none")
    \/ \E sid \in Sessions : HasSession(sid)
    \/ \E sid \in Sessions : RemoveSession(sid)
    \/ \E sid \in Sessions, env \in WriteEnvs : CanFitInMemory(sid, 1, env)
    \/ Tick

Spec == Init /\ [][Next]_vars

\* The same calls on a coordinator whose memory tier keeps one item per session
InitItemCap == InitWith(ItemCapConfigs)

SpecItemCap == InitItemCap /\ [][Next]_vars

\* Calls at one instant under calm memory readings, of which at most
\* MaxFaults have a failure induced in a tier
CalmEnv == CHOOSE e \in Envs : e.fit1 = Calm

NextFaults ==
    \/ \E sid \in Sessions, df_name \in Items,
          memFault \in BOOLEAN, fsFault \in {f \in WriteFaults : f.at <= 1} :
            \E v \in ValuesOf(sid, df_name) :
                SetDataframe(sid, df_name, v, CalmEnv, memFault, fsFault)
    \/ \E sid \in Sessions, memFault \in BOOLEAN, fsFault \in WriteFaults :
            \E data \in SessionDataChoices(sid) :
                SetSessionData(sid, data, memFault, fsFault)
    \/ \E sid \in Sessions, df_name \in Items, memFault \in ReadFaults, fsFault \in ReadFaults :
            GetDataframe(sid, df_name, CalmEnv, memFault, fsFault)
    \/ \E sid \in Sessions, memFault \in ReadFaults, fsFault \in ReadFaults :
            GetSessionData(sid, CalmEnv, memFault, fsFault)

SpecFaults == Init /\ [][NextFaults]_vars

\* Sessions are written (a tier may fail during the write), read and removed
NextRemove ==
    \/ \E sid \in Sessions, df_name \in Items,
          memFault \in BOOLEAN, fsFault \in {f \in WriteFaults : f.at <= 1} :
            \E v \in ValuesOf(sid, df_name) :
                SetDataframe(sid, df_name, v, CalmEnv, memFault, fsFault)
    \/ \E sid \in Sessions, df_name \in Items :
            GetDataframe(sid, df_name, CalmEnv, "none", "none")
    \/ \E sid \in Sessions : RemoveSession(sid)

SpecRemove == Init /\ [][NextRemove]_vars

ForceLoadSessionToMemory(sid, relief, env) ==
    \E out \in {HybridForceLoadSessionToMemory(cfg, State, sid, relief, env, now)} :
        Commit(out, Call("force_load_session_to_memory", sid, "-", None, out.path, out.raised),
               TRUE, written, FALSE)

\* Sessions are written, time passes, and sessions are force-loaded under
\* every combination of memory readings
NextForce ==
    \/ \E sid \in Sessions, df_name \in Items :
            \E v \in ValuesOf(sid, df_name) :
                SetDataframe(sid, df_name, v, CalmEnv, FALSE, NoFsFault)
    \/ \E sid \in Sessions, relief \in [1..MaxReliefReads -> UsageLevels], env \in Envs :
            ForceLoadSessionToMemory(sid, relief, env)
    \/ Tick

SpecForce == Init /\ [][NextForce]_vars

\* A test harness overwrites an item the memory tier holds with the string
\* "corrupted_data", by-passing the coordinator
CorruptMemory(sid, df_name) ==
    /\ OdHas(MemData(mem, sid), df_name)
    /\ mem' = MemSetDataframe(cfg, mem, sid, df_name, CorruptedString, now)
    /\ last' = PlainCall("corrupt", sid)
    /\ clean' = FALSE
    /\ written' = NothingKnown
    /\ UNCHANGED <<cfg, now, disk, loading, faults, threads>>

\* Writes, reads and the passing of time on a coordinator (with either item
\* cap) whose memory copies may get corrupted
InitCorrupt == InitWith(Configs \cup ItemCapConfigs)

NextCorrupt ==
    \/ \E sid \in Sessions, df_name \in Items, env \in WriteEnvs :
            \E v \in ValuesOf(sid, df_name) :
                SetDataframe(sid, df_name, v, env, FALSE, NoFsFault)
    \/ \E sid \in Sessions, df_name \in Items : CorruptMemory(sid, df_name)
    \/ \E sid \in Sessions, df_name \in Items, env \in Envs :
            GetDataframe(sid, df_name, env, "none", "none")
    \/ Tick

SpecCorrupt == InitCorrupt /\ [][NextCorrupt]_vars

(***************************************************************************)
(* The memory tier on its own: calls made directly on a                    *)
(* TTLInMemoryDataManager(ttl_seconds=2, max_sessions=2,                   *)
(* max_items_per_session=2).  In these runs `written` records, for every   *)
(* resident session, its items in the order of their latest write.         *)
(***************************************************************************)
MemoryConfigs == {Config(2, 2, 2, 3)}

MemorySessions == {"s1", "s2", "s3"}

MemoryItems(sid) == IF sid = "s1" THEN {"a", "b", "c"} ELSE {"a"}

Limits == {1, 2, 10}

\* the clock of these runs starts one tick before 0, so that a deadline
\* set at the start is reached while a refreshed one is not
InitMemory ==
    /\ cfg \in MemoryConfigs
    /\ now = 0 - 1
    /\ mem = <<>>
    /\ disk = [blobs |-> [k \in Keys |-> NoBlob], meta |-> <<>>,
               ttl_seconds |-> cfg.filesystem_ttl]
    /\ loading = {}
    /\ last = PlainCall("init", "-")
    /\ written = [s \in MemorySessions |-> <<>>]
    /\ clean = TRUE
    /\ faults = 0
    /\ threads = NoCalls

\* the write order after a call: `order` for the sessions still resident
WriteOrder(order, m) ==
    [s \in MemorySessions |->
        SelectSeq(order[s], LAMBDA n : OdHas(MemData(m, s), n))]

MemTierCall(m, call, order) ==
    /\ mem' = m
    /\ last' = call
    /\ written' = WriteOrder(order, m)
    /\ UNCHANGED <<cfg, now, disk, loading, clean, faults, threads>>

\* which cap a set_dataframe call hits: the session cap when the session is
\* new and the cache full, the item cap when the item is new and the
\* session holds max_items_per_session items
CapHit(c, m, sid, df_name) ==
    IF ~MemContains(m, sid)
    THEN IF CacheFull(c, m) THEN "session_evicted" ELSE "-"
    ELSE IF ~OdHas(MemData(m, sid), df_name) /\ Len(MemData(m, sid)) >= c.max_items
         THEN "item_evicted" ELSE "-"

MemTierSetDataframe(sid, df_name, v) ==
    MemTierCall(MemSetDataframe(cfg, mem, sid, df_name, v, now),
                Call("mem.set_dataframe", sid, df_name, v,
                     CapHit(cfg, mem, sid, df_name), FALSE),
                [written EXCEPT ![sid] =
                    Append(SelectSeq(@, LAMBDA n : n # df_name), df_name)])

MemTierGetDataframe(sid, df_name) ==
    MemTierCall(MemGetDataframe(cfg, mem, sid, now),
                Call("mem.get_dataframe", sid, df_name,
                     MemGetDataframeResult(mem, sid, df_name), "-", FALSE),
                written)

MemTierHasSession(sid) ==
    MemTierCall(MemHasSession(cfg, mem, sid, now),
                Call("mem.has_session", sid, "-", None,
                     IF MemHasSessionResult(mem, sid) THEN "true" ELSE "false", FALSE),
                written)

MemTierRemoveSession(sid) ==
    MemTierCall(MemRemoveSession(mem, sid), PlainCall("mem.remove_session", sid), written)

MemTierGetOldestSessions(limit) ==
    MemTierCall(MemGetOldestSessions(cfg, mem, now),
                Call("mem.get_oldest_sessions", "-", "-",
                     MemGetOldestSessionsResult(cfg, mem, now, limit), "-", FALSE),
                written)

MemTierCanFitInMemory(sid, usage) ==
    MemTierCall(mem,
                Call("mem.can_fit_in_memory", sid, "-", usage,
                     IF MemCanFitInMemory(usage) THEN "true" ELSE "false", FALSE),
                written)

NextMemory ==
    \/ \E sid \in MemorySessions : \E df_name \in MemoryItems(sid) :
            MemTierSetDataframe(sid, df_name, Opaque(1))
    \/ \E sid \in MemorySessions : \E df_name \in MemoryItems(sid) :
            MemTierGetDataframe(sid, df_name)
    \/ \E sid \in MemorySessions : MemTierHasSession(sid)
    \/ \E sid \in MemorySessions : MemTierRemoveSession(sid)
    \/ \E limit \in Limits : MemTierGetOldestSessions(limit)
    \/ \E sid \in MemorySessions, usage \in UsageLevels : MemTierCanFitInMemory(sid, usage)
    \/ Tick

SpecMemory == InitMemory /\ [][NextMemory]_vars

MemTierGetStorageStats ==
    MemTierCall(MemGetStorageStats(cfg, mem, now),
                PlainCall("mem.get_storage_stats", "-"), written)

\* Writes to the memory tier, the passing of time, and the two methods that
\* report on the tier
NextObserve ==
    \/ \E sid \in MemorySessions : \E df_name \in MemoryItems(sid) :
            MemTierSetDataframe(sid, df_name, Opaque(1))
    \/ \E limit \in Limits : MemTierGetOldestSessions(limit)
    \/ MemTierGetStorageStats
    \/ Tick

SpecObserve == InitMemory /\ [][NextObserve]_vars

(***************************************************************************)
(* A coordinator whose disk tier lets items expire within the run          *)
(* (filesystem_ttl_seconds=2), with calls made directly on its disk tier.  *)
(***************************************************************************)
InitDisk ==
    /\ cfg = Config(1, 2, 1, 2)
    /\ now = 0 - 1
    /\ mem = <<>>
    /\ disk = [blobs |-> [k \in Keys |-> NoBlob], meta |-> <<>>,
               ttl_seconds |-> cfg.filesystem_ttl]
    /\ loading = {}
    /\ last = PlainCall("init", "-")
    /\ written = NothingWritten
    /\ clean = TRUE
    /\ faults = 0
    /\ threads = NoCalls

GetOldestSessions(limit) ==
    \E st \in {HybridGetOldestSessions(cfg, State, now)} :
        Commit([st |-> st],
               IF FsGetOldestSessionsRaises(disk)
               THEN Call("get_oldest_sessions", "-", "-", None, "-", TRUE)
               ELSE Call("get_oldest_sessions", "-", "-",
                         HybridGetOldestSessionsResult(cfg, State, now, limit), "-", FALSE),
               TRUE, written, FALSE)

FsTierGetOldestSessions(limit) ==
    Commit([st |-> State],
           IF FsGetOldestSessionsRaises(disk)
           THEN Call("fs.get_oldest_sessions", "-", "-", None, "-", TRUE)
           ELSE Call("fs.get_oldest_sessions", "-", "-",
                     FsGetOldestSessionsResult(disk, limit), "-", FALSE),
           TRUE, written, FALSE)

FsTierHasSession(sid) ==
    Commit([st |-> State],
           Call("fs.has_session", sid, "-", None,
                IF FsHasSession(disk, sid) THEN "true" ELSE "false", FALSE),
           TRUE, written, FALSE)

NextDisk ==
    \/ \E sid \in Sessions, df_name \in Items : \E v \in ValuesOf(sid, df_name) :
            SetDataframe(sid, df_name, v, CalmEnv, FALSE, NoFsFault)
    \/ \E sid \in Sessions, df_name \in Items :
            GetDataframe(sid, df_name, CalmEnv, "none", "none")
    \/ \E limit \in Limits : GetOldestSessions(limit)
    \/ \E limit \in Limits : FsTierGetOldestSessions(limit)
    \/ \E sid \in Sessions : FsTierHasSession(sid)
    \/ Tick

SpecDisk == InitDisk /\ [][NextDisk]_vars

\* Sessions are written under calm memory readings and read under every
\* combination of readings while time passes; a read may have a tier fail
\* on entry ("all") or inside the lazy load's try-block ("load")
LoadFaults == ReadFaults \cup {"load"}

NextLoad ==
    \/ \E sid \in Sessions, df_name \in Items :
            \E v \in ValuesOf(sid, df_name) :
                SetDataframe(sid, df_name, v, CalmEnv, FALSE, NoFsFault)
    \/ \E sid \in Sessions, df_name \in Items, env \in Envs,
          memFault \in LoadFaults, fsFault \in LoadFaults :
            GetDataframe(sid, df_name, env, memFault, fsFault)
    \/ Tick

SpecLoad == InitDisk /\ [][NextLoad]_vars

\* The same calls on a coordinator whose two tiers both have a ttl of 2
InitSliding ==
    /\ cfg = Config(1, 2, 2, 2)
    /\ now = 0 - 1
    /\ mem = <<>>
    /\ disk = [blobs |-> [k \in Keys |-> NoBlob], meta |-> <<>>,
               ttl_seconds |-> cfg.filesystem_ttl]
    /\ loading = {}
    /\ last = PlainCall("init", "-")
    /\ written = NothingWritten
    /\ clean = TRUE
    /\ faults = 0
    /\ threads = NoCalls

SpecSliding == InitSliding /\ [][NextDisk]_vars

(***************************************************************************)
(* Pressure relief run on its own over a memory tier of three sessions,    *)
(* some of them marked as loading.                                         *)
(***************************************************************************)
InitRelief ==
    /\ cfg = Config(3, 2, 2, 3)
    /\ now = 0 - 1
    /\ mem = <<>>
    /\ disk = [blobs |-> [k \in Keys |-> NoBlob], meta |-> <<>>,
               ttl_seconds |-> cfg.filesystem_ttl]
    /\ loading = {}
    /\ last = PlainCall("init", "-")
    /\ written = [s \in MemorySessions |-> <<>>]
    /\ clean = TRUE
    /\ faults = 0
    /\ threads = NoCalls

\* the readings _check_memory_pressure takes after each eviction
ReliefEnvs ==
    {[fit1 |-> High, fit2 |-> High, relief |-> r] :
        r \in [1..Cardinality(MemorySessions) -> UsageLevels]}

\* self._loading_sessions.add(sid) / .remove(sid)
MarkLoading(sid) ==
    /\ loading' = (IF sid \in loading THEN loading \ {sid} ELSE loading \cup {sid})
    /\ last' = PlainCall("mark_loading", sid)
    /\ UNCHANGED <<cfg, now, mem, disk, written, clean, faults, threads>>

\* _relieve_memory_pressure(required_size); last.value lists the sessions
\* that left the memory tier, in the key order they had
RelievePressure(required_size, env) ==
    \E st \in {RelieveMemoryPressure(cfg, State, required_size, env, now)} :
        MemTierCall(st.mem,
                    Call("relieve_memory_pressure", "-", "-",
                         SelectSeq([k \in 1..Len(mem) |-> mem[k].sid],
                                   LAMBDA x : ~MemContains(st.mem, x)),
                         "-", FALSE),
                    written)

NextRelief ==
    \/ \E sid \in MemorySessions : MemTierSetDataframe(sid, "a", Opaque(1))
    \/ \E sid \in MemorySessions : MemTierGetDataframe(sid, "a")
    \/ \E sid \in MemorySessions : MarkLoading(sid)
    \/ \E required_size \in {0, 2}, env \in ReliefEnvs :
            RelievePressure(required_size, env)
    \/ Tick

SpecRelief == InitRelief /\ [][NextRelief]_vars

(***************************************************************************)
(* A reader thread and a writer thread calling the coordinator on the same *)
(* item.  Both methods run inside `with self._lock`, so a thread that has  *)
(* called waits for the lock and then runs its whole method.               *)
(***************************************************************************)
\* reader.start(); writer.start(): get_dataframe(sid, df_name) and
\* set_dataframe(sid, df_name, v) are called on an item whose value is old
StartThreads(sid, df_name, v) ==
    /\ threads = NoCalls
    /\ Committed(<<sid, df_name>>)
    /\ v # written[<<sid, df_name>>]
    /\ threads' = [th \in Threads |->
                      [pc |-> "waiting", sid |-> sid, item |-> df_name,
                       value |-> IF th = "writer" THEN v ELSE None,
                       old |-> written[<<sid, df_name>>]]]
    /\ UNCHANGED <<cfg, now, mem, disk, loading, last, written, clean, faults>>

ReaderRuns(env) ==
    LET me == threads["reader"]
    IN  /\ me.pc = "waiting"
        /\ \E out \in {HybridGetDataframe(cfg, State, me.sid, me.item, env, now,
                                           "none", "none")} :
                /\ CommitCall(out, Call("get_dataframe", me.sid, "-", None, out.path,
                                        out.raised),
                              TRUE, written, FALSE)
                /\ threads' = [threads EXCEPT !["reader"].pc = "returned",
                                              !["reader"].value = out.result]

WriterRuns(env) ==
    LET me == threads["writer"]
    IN  /\ me.pc = "waiting"
        /\ \E out \in {HybridSetDataframe(cfg, State, me.sid, me.item, me.value, env,
                                           now, FALSE, NoFsFault)} :
                /\ CommitCall(out, Call("set_dataframe", me.sid, me.item, me.value,
                                        WritePath(out), out.raised),
                              TRUE, [written EXCEPT ![<<me.sid, me.item>>] = me.value],
                              FALSE)
                /\ threads' = [threads EXCEPT !["writer"].pc = "returned"]

\* reader.join(); writer.join()
JoinThreads ==
    /\ \A th \in Threads : threads[th].pc = "returned"
    /\ threads' = NoCalls
    /\ UNCHANGED <<cfg, now, mem, disk, loading, last, written, clean, faults>>

NextRace ==
    \/ /\ threads = NoCalls
       /\ \E sid \in Sessions, df_name \in Items, env \in WriteEnvs :
              \E v \in ValuesOf(sid, df_name) :
                  SetDataframe(sid, df_name, v, env, FALSE, NoFsFault)
    \/ /\ threads = NoCalls
       /\ \E sid \in Sessions, df_name \in Items :
              GetDataframe(sid, df_name, CalmEnv, "none", "none")
    \/ /\ threads = NoCalls
       /\ Tick
    \/ \E sid \in Sessions, df_name \in Items : \E v \in ValuesOf(sid, df_name) :
            StartThreads(sid, df_name, v)
    \/ \E env \in Envs : ReaderRuns(env)
    \/ \E env \in WriteEnvs : WriterRuns(env)
    \/ JoinThreads

SpecRace == Init /\ [][NextRace]_vars


(***************************************************************************)
(* The disk tier called directly, with disk readings chosen by the         *)
(* environment and an undecodable metadata record injected for a session.  *)
(***************************************************************************)
CorruptedSession == "corrupted_session"

\* _metadata_cache.set(metadata_key, b"placeholder") with a value whose
\* read raises
InjectCorruptMetadata ==
    /\ ~MetaContains(disk.meta, CorruptedSession)
    /\ Commit([st |-> [State EXCEPT !.disk.meta =
                          Append(@, [session_id |-> CorruptedSession,
                                     undecodable |-> TRUE])]],
              PlainCall("inject", CorruptedSession), FALSE, written, FALSE)

\* set_dataframe on the disk tier; before and after are the disk readings
\* at the start and at the end of the call
FsTierSetDataframe(sid, df_name, v, usage_before, usage_after) ==
    Commit([st |-> [State EXCEPT !.disk = FsSetDataframe(disk, sid, df_name, v, now, "none")]],
           Call("fs.set_dataframe", sid, df_name, v,
                IF usage_before < MaxDiskUsagePercent THEN "below_ceiling"
                ELSE IF usage_after < MaxDiskUsagePercent THEN "back_below_ceiling"
                ELSE "above_ceiling", FALSE),
           FALSE, written, FALSE)

\* last.path tells whether an undecodable row was met
FsTierGetStorageStats(delFails) ==
    \E out \in {FsGetStorageStats(disk, delFails)} :
        Commit([st |-> [State EXCEPT !.disk = out.d]],
               Call("fs.get_storage_stats", "-", "-", out.result,
                    IF FsGetOldestSessionsRaises(disk)
                    THEN (IF delFails THEN "delete_failed" ELSE "healed") ELSE "-",
                    out.raised),
               TRUE, written, FALSE)

FsTierGetAllSessionIds(delFails) ==
    \E out \in {FsGetAllSessionIds(disk, delFails)} :
        Commit([st |-> [State EXCEPT !.disk = out.d]],
               Call("fs.get_all_session_ids", "-", "-", out.result,
                    IF FsGetOldestSessionsRaises(disk)
                    THEN (IF delFails THEN "delete_failed" ELSE "healed") ELSE "-",
                    out.raised),
               TRUE, written, FALSE)

FsTierEmergencyCleanup(usage) ==
    \E out \in {FsEmergencyCleanup(disk, usage)} :
        Commit([st |-> [State EXCEPT !.disk = out.d]],
               Call("fs.emergency_cleanup", "-", "-", None, "-", out.raised),
               FALSE, written, FALSE)

NextHeal ==
    \/ \E sid \in Sessions, df_name \in Items, usage_before, usage_after \in UsageLevels :
            \E v \in ValuesOf(sid, df_name) :
                FsTierSetDataframe(sid, df_name, v, usage_before, usage_after)
    \/ InjectCorruptMetadata
    \/ \E delFails \in BOOLEAN : FsTierGetStorageStats(delFails)
    \/ \E delFails \in BOOLEAN : FsTierGetAllSessionIds(delFails)
    \/ \E limit \in Limits : FsTierGetOldestSessions(limit)
    \/ \E limit \in Limits : GetOldestSessions(limit)
    \/ \E usage \in [1..Cardinality(Sessions) -> UsageLevels] : FsTierEmergencyCleanup(usage)
    \/ Tick

SpecHeal == InitDisk /\ [][NextHeal]_vars

\* _emergency_cleanup() called, as the tests call it, at a disk utilization
\* of usage[0]; usage[k] is the reading taken after the k-th removal.
\* last.path tells the utilization at the call, last.value the sessions
\* removed, in metadata order
EmergencyCleanupRun(usage) ==
    \E out \in {FsEmergencyCleanup(disk, [k \in 1..Cardinality(Sessions) |-> usage[k]])} :
        Commit([st |-> [State EXCEPT !.disk = out.d]],
               Call("fs.emergency_cleanup", "-", "-",
                    SelectSeq([k \in 1..Len(disk.meta) |-> disk.meta[k].session_id],
                              LAMBDA x : ~MetaContains(out.d.meta, x)),
                    IF usage[0] < MaxDiskUsagePercent THEN "below_ceiling" ELSE "above_ceiling",
                    out.raised),
               FALSE, written, FALSE)

\* Direct writes to the disk tier, the passing of time and cleanup runs
NextCleanup ==
    \/ \E sid \in Sessions, df_name \in Items, usage \in UsageLevels :
            \E v \in ValuesOf(sid, df_name) :
                FsTierSetDataframe(sid, df_name, v, usage, usage)
    \/ \E usage \in [0..Cardinality(Sessions) -> UsageLevels] : EmergencyCleanupRun(usage)
    \/ Tick

SpecCleanup == InitDisk /\ [][NextCleanup]_vars

(***************************************************************************)
(* Two threads that read the same item of a session that is on disk but    *)
(* not in memory.                                                          *)
(***************************************************************************)
StartReaders(sid, df_name) ==
    /\ threads = NoCalls
    /\ Committed(<<sid, df_name>>)
    /\ ~MemContains(mem, sid)
    /\ FsHasSession(disk, sid)
    /\ threads' = [th \in Threads |->
                      [pc |-> "waiting", sid |-> sid, item |-> df_name, value |-> None,
                       old |-> written[<<sid, df_name>>], path |-> "-"]]
    /\ UNCHANGED <<cfg, now, mem, disk, loading, last, written, clean, faults>>

\* thread th takes self._lock and runs get_dataframe; path is the branch
\* that produced its result ("loaded" when it copied the session)
LoaderRuns(th, env) ==
    LET me == threads[th]
    IN  /\ me.pc = "waiting"
        /\ \E out \in {HybridGetDataframe(cfg, State, me.sid, me.item, env, now,
                                           "none", "none")} :
                /\ CommitCall(out, Call("get_dataframe", me.sid, "-", None, out.path,
                                        out.raised),
                              TRUE, written, FALSE)
                /\ threads' = [threads EXCEPT ![th] =
                                  [me EXCEPT !.pc = "returned", !.value = out.result,
                                             !.path = out.path]]

NextLoadRace ==
    \/ /\ threads = NoCalls
       /\ \E sid \in Sessions, df_name \in Items, env \in WriteEnvs :
              \E v \in ValuesOf(sid, df_name) :
                  SetDataframe(sid, df_name, v, env, FALSE, NoFsFault)
    \/ /\ threads = NoCalls
       /\ Tick
    \/ \E sid \in Sessions, df_name \in Items : StartReaders(sid, df_name)
    \/ \E th \in Threads, env \in Envs : LoaderRuns(th, env)
    \/ JoinThreads

SpecLoadRace == Init /\ [][NextLoadRace]_vars

(***************************************************************************)
(* The same two readers with the lazy load shown in flight.  get_dataframe *)
(* and _load_session_from_disk run inside `with self._lock` (an RLock), so *)
(* a thread enters only while no other thread is inside; a thread that     *)
(* copies a session stands at pc = "loading" between adding the marker and *)
(* the end of its call.                                                    *)
(***************************************************************************)
Enter(th, env) ==
    LET me == threads[th]
    IN  /\ me.pc = "waiting"
        /\ \A o \in Threads : threads[o].pc # "loading"
        /\ \E out \in {HybridGetDataframe(cfg, State, me.sid, me.item, env, now,
                                           "none", "none")} :
              IF out.path \in {"loaded", "empty"}
              THEN \E st \in {LoadMarker(cfg, State, me.sid, env, now)} :
                      /\ mem' = st.mem
                      /\ disk' = st.disk
                      /\ loading' = st.loading
                      /\ threads' = [threads EXCEPT ![th].pc = "loading"]
                      /\ UNCHANGED <<cfg, now, last, written, clean, faults>>
              ELSE /\ CommitCall(out, Call("get_dataframe", me.sid, "-", None, out.path,
                                           out.raised),
                                 TRUE, written, FALSE)
                   /\ threads' = [threads EXCEPT ![th] =
                                     [me EXCEPT !.pc = "returned", !.value = out.result,
                                                !.path = out.path]]

\* the copy, the finally-block and the rest of get_dataframe
EndLoad(th) ==
    LET me == threads[th]
    IN  /\ me.pc = "loading"
        /\ \E out \in {HybridGetDataframe(cfg, [State EXCEPT !.loading = @ \ {me.sid}],
                                           me.sid, me.item, CalmEnv, now, "none", "none")} :
                /\ CommitCall(out, Call("get_dataframe", me.sid, "-", None, out.path,
                                        out.raised),
                              TRUE, written, FALSE)
                /\ threads' = [threads EXCEPT ![th] =
                                  [me EXCEPT !.pc = "returned", !.value = out.result,
                                             !.path = out.path]]

NextInFlight ==
    \/ /\ threads = NoCalls
       /\ \E sid \in Sessions, df_name \in Items, env \in WriteEnvs :
              \E v \in ValuesOf(sid, df_name) :
                  SetDataframe(sid, df_name, v, env, FALSE, NoFsFault)
    \/ /\ threads = NoCalls
       /\ Tick
    \/ \E sid \in Sessions, df_name \in Items : StartReaders(sid, df_name)
    \/ \E th \in Threads, env \in Envs : Enter(th, env)
    \/ \E th \in Threads : EndLoad(th)
    \/ JoinThreads

SpecInFlight == Init /\ [][NextInFlight]_vars

(***************************************************************************)
(* Locks.  The coordinator and the memory tier each own one                *)
(* threading.RLock; the disk tier owns none.  A call is the sequence of    *)
(* `with self._lock` entries and exits it makes; `held` is the stack of    *)
(* locks a thread has entered.  The call's effect on the tiers is applied  *)
(* when it leaves its outermost lock.                                      *)
(***************************************************************************)
Acquire(lock) == [op |-> "acquire", lock |-> lock]

Release(lock) == [op |-> "release", lock |-> lock]

LockProgram(kind, env) ==
    IF kind = "set_dataframe"
    THEN <<Acquire("hybrid"), Acquire("memory"), Release("memory")>>      \* can_fit_in_memory
         \o (IF MemCanFitInMemory(env.fit1) THEN <<>>
             ELSE <<Acquire("hybrid"),                                    \* _relieve_memory_pressure
                    Acquire("memory"), Release("memory"), Release("hybrid")>>)
         \o <<Acquire("memory"), Release("memory"), Release("hybrid")>>   \* memory set_dataframe
    ELSE IF kind = "get_dataframe"
    THEN <<Acquire("hybrid"), Acquire("memory"), Release("memory"),       \* has_session
           Acquire("hybrid")>>                                            \* _load_session_from_disk
         \o (IF MemCanFitInMemory(env.fit1) THEN <<>>
             ELSE <<Acquire("hybrid"),
                    Acquire("memory"), Release("memory"), Release("hybrid")>>)
         \o <<Acquire("memory"), Release("memory"),                       \* set_session_data
              Release("hybrid"), Release("hybrid")>>
    ELSE <<Acquire("memory"),                                             \* mem.get_storage_stats
           Acquire("memory"), Release("memory"),                          \* get_session_size
           Release("memory")>>

\* Variant of CanAcquire for threading.Lock, which is not re-entrant
CanAcquireLock(th, lock) ==
    \A o \in Threads : \A k \in 1..Len(threads[o].held) : threads[o].held[k] # lock

\* RLock.acquire returns at once unless another thread owns the lock
CanAcquire(th, lock) ==
    \A o \in Threads \ {th} : \A k \in 1..Len(threads[o].held) : threads[o].held[k] # lock

CallKinds == {"set_dataframe", "get_dataframe", "mem.get_storage_stats"}

\* every thread calls one method
StartCalls(sid, df_name, kinds, env) ==
    /\ threads = NoCalls
    /\ ValuesOf(sid, df_name) # {}
    /\ threads' = [th \in Threads |->
                      [pc |-> "running", sid |-> sid, item |-> df_name,
                       value |-> CHOOSE v \in ValuesOf(sid, df_name) : TRUE, old |-> None,
                       kind |-> kinds[th], env |-> env, at |-> 1, held |-> <<>>]]
    /\ UNCHANGED <<cfg, now, mem, disk, loading, last, written, clean, faults>>

\* thread th executes its next lock entry or exit: an entry waits while
\* another thread owns the lock, an exit never waits
Moves(th) ==
    LET me == threads[th]
        prog == LockProgram(me.kind, me.env)
        ins == prog[me.at]
    IN  /\ me.pc = "running"
        /\ ins.op = "acquire" => CanAcquire(th, ins.lock)
        /\ threads' = [threads EXCEPT ![th] =
                          IF me.at = Len(prog)
                          THEN [me EXCEPT !.pc = "returned", !.held = <<>>]
                          ELSE [me EXCEPT !.at = me.at + 1,
                                          !.held = IF ins.op = "acquire"
                                                   THEN Append(me.held, ins.lock)
                                                   ELSE SubSeq(me.held, 1, Len(me.held) - 1)]]

\* the step of thread th together with what the call does to the tiers
Step(th) ==
    LET me == threads[th]
    IN  /\ Moves(th)
        /\ IF me.at < Len(LockProgram(me.kind, me.env))
           THEN UNCHANGED <<cfg, now, mem, disk, loading, last, written, clean, faults>>
           ELSE IF me.kind = "set_dataframe"
           THEN \E out \in {HybridSetDataframe(cfg, State, me.sid, me.item, me.value,
                                               me.env, now, FALSE, NoFsFault)} :
                    CommitCall(out, Call("set_dataframe", me.sid, me.item, me.value,
                                         WritePath(out), out.raised),
                               TRUE, [written EXCEPT ![<<me.sid, me.item>>] = me.value],
                               FALSE)
           ELSE IF me.kind = "get_dataframe"
           THEN \E out \in {HybridGetDataframe(cfg, State, me.sid, me.item, me.env,
                                               now, "none", "none")} :
                    CommitCall(out, Call("get_dataframe", me.sid, "-", None, out.path,
                                         out.raised),
                               TRUE, written, FALSE)
           ELSE /\ mem' = MemGetStorageStats(cfg, mem, now)
                /\ last' = PlainCall("mem.get_storage_stats", "-")
                /\ UNCHANGED <<cfg, now, disk, loading, written, clean, faults>>

NextLocks ==
    \/ \E kinds \in [Threads -> CallKinds], env \in Envs :
            StartCalls("s1", "a", kinds, env)
    \/ \E th \in Threads : Step(th)
    \/ JoinThreads

\* the scheduler lets every thread that can run do so.  Within NextLocks the
\* steps that satisfy Moves(th) are exactly the steps Step(th).
SpecLocks == Init /\ [][NextLocks]_vars /\ \A th \in Threads : WF_threads(Moves(th))

(***************************************************************************)
(* Two threads that write different items of one session directly to the   *)
(* disk tier.  DiskCacheDataManager takes no lock: each diskcache call is   *)
(* atomic, and set_dataframe makes three of them - the blob is stored, the  *)
(* metadata record is read, the updated record is stored.                   *)
(***************************************************************************)
StartDiskWriters(sid) ==
    /\ threads = NoCalls
    /\ \A i \in Items : ValuesOf(sid, i) # {}
    /\ threads' = [th \in Threads |->
                      LET i == IF th = "reader" THEN "a" ELSE "b"
                      IN  [pc |-> "running", sid |-> sid, item |-> i,
                           value |-> CHOOSE v \in ValuesOf(sid, i) : TRUE, old |-> None,
                           stage |-> "blob", md |-> NewMetadata(sid, now)]]
    /\ UNCHANGED <<cfg, now, mem, disk, loading, last, written, clean, faults>>

DiskWriterStep(th) ==
    LET me == threads[th]
        bytes == SerializeData(me.value)
    IN  /\ me.pc = "running"
        /\ "stage" \in DOMAIN me
        /\ IF me.stage = "blob"
           THEN /\ disk' = [disk EXCEPT !.blobs =
                               BlobSet(disk.blobs, me.sid, me.item, bytes,
                                       Deadline(now, disk.ttl_seconds))]
                /\ threads' = [threads EXCEPT ![th].stage = "read"]
                /\ UNCHANGED <<last, written, clean>>
           ELSE IF me.stage = "read"
           THEN /\ threads' = [threads EXCEPT ![th].stage = "store",
                                              ![th].md = MetaGet(disk.meta, me.sid, now)]
                /\ UNCHANGED <<disk, last, written, clean>>
           ELSE /\ disk' = [disk EXCEPT !.meta =
                               MetaStore(disk.meta,
                                         UpdateSessionMetadata(<<me.md>>, me.sid, me.item,
                                                               bytes.len, now)[1])]
                /\ threads' = [threads EXCEPT ![th].pc = "returned"]
                /\ last' = Call("fs.set_dataframe", me.sid, me.item, me.value, "-", FALSE)
                /\ clean' = FALSE
                /\ written' = NothingKnown
        /\ UNCHANGED <<cfg, now, mem, loading, faults>>

NextDiskRace ==
    \/ /\ threads = NoCalls
       /\ \E sid \in Sessions, df_name \in Items : \E v \in ValuesOf(sid, df_name) :
              FsTierSetDataframe(sid, df_name, v, 50, 50)
    \/ /\ threads = NoCalls
       /\ Tick
    \/ \E sid \in Sessions : StartDiskWriters(sid)
    \/ \E th \in Threads : DiskWriterStep(th)
    \/ JoinThreads

SpecDiskRace == InitDisk /\ [][NextDiskRace]_vars

(***************************************************************************)
(* Properties                                                              *)
(***************************************************************************)
MemItems(m, sid) == OdNames(MemData(m, sid))

DiskItems(d, sid) == {i \in Items : BlobIn(d.blobs, sid, i)}

NoFaultGet(st, sid, df_name, env) ==
    HybridGetDataframe(cfg, st, sid, df_name, env, now, "none", "none")

\* C1: a session that is resident in the memory tier holds there every item
\* that has been written to it and not removed - never only some of them.
C1_NeverPartiallyResident ==
    \A sid \in MemSessionIds(mem) : \A i \in Items :
        Committed(<<sid, i>>) => i \in MemItems(mem, sid)

\* C2: while no failure has been induced and no disk blob has expired,
\* GetItem(S,I) returns the opaque value most recently written to (S,I),
\* whatever the memory readings are.
C2_CommittedDataNeverLost ==
    clean =>
        \A k \in Keys : \A env \in Envs :
            (Committed(k) /\ written[k].kind = "obj")
                => NoFaultGet(State, k[1], k[2], env).result = written[k]

C10_ServedFromDiskUncached ==
    \A sid \in Sessions, df_name \in Items, env \in Envs :
        (/\ ~MemHasSessionResult(mem, sid)
         /\ ~MemCanFitInMemory(env.fit1) /\ ~MemCanFitInMemory(env.fit2))
            => /\ NoFaultGet(State, sid, df_name, env).result
                    = FsGetDataframeResult(disk, sid, df_name)
               /\ ~MemHasSessionResult(NoFaultGet(State, sid, df_name, env).st.mem, sid)

C10_Witness ==
    /\ last.op = "get_dataframe" /\ last.path = "no_fit"
    /\ ~MemHasSessionResult(mem, last.sid)
    /\ DiskItems(disk, last.sid) = Items

\* What a tier holds for a session, payloads only (no timestamps)
MemContent(m, sid) == MemData(m, sid)

DiskContent(d, sid) ==
    [values |-> [i \in Items |-> FsGetDataframeResult(d, sid, i)],
     listed |-> IF MetaContains(d.meta, sid)
                THEN OdNames(MetaGet(d.meta, sid, 0).item_sizes) ELSE {}]

\* C5: a coordinator write raises exactly when the memory-tier write and
\* the disk-tier write both failed; the error then carries both causes, and
\* a write in which at most one tier failed raises nothing.
C5_RaisesIffBothFailed ==
    /\ \A sid \in Sessions, memFault \in BOOLEAN, fsFault \in WriteFaults :
          \A data \in SessionDataChoices(sid) :
            LET out == HybridSetSessionData(cfg, State, sid, data, now, memFault, fsFault)
                both == memFault /\ FsSetSessionDataRaises(data, fsFault)
            IN  /\ out.raised = both
                /\ out.error = IF both
                               THEN CombinedError(MemoryCause, FilesystemCause(fsFault))
                               ELSE NoException
    /\ \A sid \in Sessions, df_name \in Items, memFault \in BOOLEAN,
          fsFault \in {f \in WriteFaults : f.at <= 1} :
          \A v \in ValuesOf(sid, df_name) :
            LET out == HybridSetDataframe(cfg, State, sid, df_name, v, CalmEnv, now,
                                          memFault, fsFault)
                both == memFault /\ fsFault.at = 1
            IN  /\ out.raised = both
                /\ out.error = IF both
                               THEN CombinedError(MemoryCause, FilesystemCause(fsFault))
                               ELSE NoException

C5_Witness ==
    /\ last.op \in {"set_dataframe", "set_session_data"}
    /\ last.path = "both_failed" /\ last.raised
    /\ faults = 1

\* C6: a coordinator write that both tiers failed leaves, in each tier, the
\* content held for the session as it was before the call.
C6_NoPartialWrite ==
    [][(last'.op \in {"set_dataframe", "set_session_data"} /\ last'.path = "both_failed")
        => /\ MemContent(mem', last'.sid) = MemContent(mem, last'.sid)
           /\ DiskContent(disk', last'.sid) = DiskContent(disk, last'.sid)]_vars

\* C7: GetItem never raises, whichever tier throws during the read; when
\* both tiers throw, or neither tier knows the item, it returns None.
C7_GetItemNeverRaises ==
    \A sid \in Sessions, df_name \in Items, env \in Envs,
       memFault \in ReadFaults, fsFault \in ReadFaults :
        LET out == HybridGetDataframe(cfg, State, sid, df_name, env, now, memFault, fsFault)
        IN  /\ ~out.raised
            /\ (memFault = "all" /\ fsFault = "all") => out.result = None
            /\ (/\ MemGetDataframeResult(mem, sid, df_name) = None
                /\ FsGetDataframeResult(disk, sid, df_name) = None) => out.result = None

C7_Witness ==
    /\ last.op = "get_dataframe" /\ last.path = "raised" /\ ~last.raised
    /\ faults = 1
    /\ \E sid \in Sessions : MemHasSessionResult(mem, sid) /\ FsHasSession(disk, sid)

\* C8: GetSessionData never lets a tier failure reach the caller.
C8_GetSessionDataNeverRaises == last.op = "get_session_data" => ~last.raised

\* C9: after a read has lazily loaded a session, the memory tier holds
\* every item the disk tier holds for it.
C9_LoadsWholeSession ==
    (last.op \in {"get_dataframe", "get_session_data"} /\ last.path = "loaded")
        => DiskItems(disk, last.sid) \subseteq MemItems(mem, last.sid)

\* C11: when the value the memory tier holds for (S,I) fails the integrity
\* check, GetItem raises nothing, returns what the disk tier holds for (S,I)
\* and leaves no item of the corrupted memory copy of S behind.
C11_InvalidFallsBackToDisk ==
    \A sid \in Sessions, df_name \in Items, env \in Envs :
        (/\ MemGetDataframeResult(mem, sid, df_name) # None
         /\ ~IsDataValid(MemGetDataframeResult(mem, sid, df_name)))
            => LET out == NoFaultGet(State, sid, df_name, env)
               IN  /\ ~out.raised
                   /\ out.result = FsGetDataframeResult(disk, sid, df_name)
                   /\ \A i \in Items :
                         OdValue(MemData(out.st.mem, sid), i)
                             \in {None, FsGetDataframeResult(disk, sid, i)}

\* C12: with max_sessions = 1 a write leaves only the written session in
\* memory; GetItem on another session whose items are committed on disk then
\* returns the value written and leaves exactly that session in memory.
C12_SingleSlotReload ==
    cfg.max_sessions = 1 =>
        /\ (last.op = "set_dataframe" /\ last.path = "ok") => MemSessionIds(mem) = {last.sid}
        /\ clean =>
              \A sA \in Sessions, sB \in Sessions, df_name \in Items :
                (sA # sB /\ MemSessionIds(mem) = {sB} /\ Committed(<<sA, df_name>>))
                    => LET out == NoFaultGet(State, sA, df_name, CalmEnv)
                       IN  /\ out.result = written[<<sA, df_name>>]
                           /\ MemSessionIds(out.st.mem) = {sA}

MemLastAccess(m, sid) == m[MemIndex(m, sid)].last_access

ItemOrder(m, sid) == [k \in 1..Len(MemData(m, sid)) |-> MemData(m, sid)[k].name]

\* C13: the memory tier never holds more than max_sessions sessions, and a
\* write that inserts a new session into a full tier evicts exactly one
\* session, one whose last access is the oldest among the resident ones.
C13_SessionCapEvictsOldest ==
    [][/\ Len(mem') <= cfg.max_sessions
       /\ (/\ last'.op = "mem.set_dataframe"
           /\ ~MemContains(mem, last'.sid)
           /\ Len(mem) = cfg.max_sessions)
            => \E victim \in MemSessionIds(mem) :
                 /\ MemSessionIds(mem')
                        = (MemSessionIds(mem) \ {victim}) \cup {last'.sid}
                 /\ \A other \in MemSessionIds(mem) :
                        MemLastAccess(mem, victim) <= MemLastAccess(mem, other)]_vars

C13_Witness ==
    /\ last.op = "mem.set_dataframe" /\ last.path = "session_evicted"
    /\ Len(mem) = cfg.max_sessions
    /\ MemContains(mem, last.sid)
    /\ \E other \in MemSessionIds(mem) : MemLastAccess(mem, other) < MemLastAccess(mem, last.sid)

C15_CanFitHonoursCaps ==
    last.op = "mem.can_fit_in_memory" =>
        /\ last.value >= MemCanFitThreshold => last.path = "false"
        /\ (~MemContains(mem, last.sid) /\ Len(mem) >= cfg.max_sessions)
              => last.path = "false"
        /\ (MemContains(mem, last.sid) /\ Len(MemData(mem, last.sid)) >= cfg.max_items)
              => last.path = "false"

\* C16: in the memory tier a get, set or has_session at time t moves the
\* session's last access to t and its deadline to t + ttl; as time passes a
\* session stays while less than ttl has elapsed since its last access and
\* is gone (has_session false) once ttl or more has elapsed.
C16_SlidingMemoryTtl ==
    [][/\ \A k \in 1..Len(mem') :
            /\ mem'[k].expire = Deadline(mem'[k].last_access, cfg.memory_ttl)
            /\ now' < mem'[k].last_access + cfg.memory_ttl
       /\ (/\ last'.op \in {"mem.set_dataframe", "mem.get_dataframe", "mem.has_session"}
           /\ MemContains(mem', last'.sid))
            => MemLastAccess(mem', last'.sid) = now'
       /\ last'.op = "tick"
            => \A sid \in MemSessionIds(mem) :
                 MemHasSessionResult(mem', sid)
                    = (now' < MemLastAccess(mem, sid) + cfg.memory_ttl)]_vars

\* a session read one tick after the start is still there when the deadline
\* set at the start has passed
C16_Witness ==
    /\ last.op = "tick" /\ now = 1
    /\ MemHasSessionResult(mem, "s1") /\ MemLastAccess(mem, "s1") = 0
    /\ ~MemHasSessionResult(mem, "s2") /\ ~MemHasSessionResult(mem, "s3")

\* C17: the disk tier reports a session (has_session) only while less than
\* its ttl has elapsed since the session was last read or written there.
C17_SlidingDiskTtl ==
    \A sid \in Sessions :
        FsHasSession(disk, sid) => now < MetaGet(disk.meta, sid, 0).last_access + disk.ttl_seconds

\* C18: one pressure-relief pass never evicts a session marked as loading,
\* and never evicts a session while a non-loading session that was accessed
\* earlier stays resident.
C18_ReliefEvictsOldestPrefix ==
    [][last'.op = "relieve_memory_pressure" =>
        LET evicted == MemSessionIds(mem) \ MemSessionIds(mem')
        IN  /\ MemSessionIds(mem') \subseteq MemSessionIds(mem)
            /\ evicted \cap loading = {}
            /\ \A e \in evicted : \A r \in MemSessionIds(mem') \ loading :
                    ~(MemLastAccess(mem, r) < MemLastAccess(mem, e))]_vars

\* a pass that evicted a session, left a loading session and a non-loading
\* session resident
C18_Witness ==
    /\ last.op = "relieve_memory_pressure"
    /\ Len(last.value) >= 1
    /\ MemSessionIds(mem) \cap loading # {}
    /\ MemSessionIds(mem) \ loading # {}

\* C19: get_oldest_sessions(limit) of the memory tier, of the disk tier and
\* of the coordinator returns at most limit entries, in ascending order of
\* last access, naming each session once, and no session it leaves out was
\* accessed earlier than one it names: its entries are the limit
\* least-recently-accessed sessions the component knows (all of them when it
\* knows fewer).
C19_OldestSessions ==
    \A limit \in Limits :
        LET Ok(R, la) ==
                /\ Len(R) <= limit
                /\ Len(R) = (IF Cardinality(DOMAIN la) < limit
                             THEN Cardinality(DOMAIN la) ELSE limit)
                /\ \A j, k \in 1..Len(R) :
                        j < k => /\ R[j].last_access <= R[k].last_access
                                 /\ R[j].sid # R[k].sid
                /\ \A k \in 1..Len(R) :
                        /\ R[k].sid \in DOMAIN la
                        /\ \A x \in DOMAIN la \ {R[j].sid : j \in 1..Len(R)} :
                                ~(la[x] < la[R[k].sid])
            onDisk == {disk.meta[k].session_id : k \in 1..Len(disk.meta)}
            memLa == [sid \in MemSessionIds(mem) |-> MemLastAccess(mem, sid)]
            diskLa == [sid \in onDisk |-> MetaGet(disk.meta, sid, 0).last_access]
            bothLa == [sid \in MemSessionIds(mem) \cup onDisk |->
                          IF sid \notin onDisk THEN memLa[sid]
                          ELSE IF sid \notin MemSessionIds(mem) THEN diskLa[sid]
                          ELSE IF memLa[sid] < diskLa[sid] THEN diskLa[sid]
                          ELSE memLa[sid]]
        IN  /\ Ok(MemGetOldestSessionsResult(cfg, mem, now, limit), memLa)
            /\ Ok(FsGetOldestSessionsResult(disk, limit), diskLa)
            /\ Ok(HybridGetOldestSessionsResult(cfg, State, now, limit), bothLa)

\* C20: a get_dataframe(S, I) that runs concurrently with
\* set_dataframe(S, I, new), where old had been written to the item before,
\* returns old or new, never None and never another value.
C20_RacingReadSeesOldOrNew ==
    threads["reader"].pc = "returned" =>
        threads["reader"].value \in {threads["reader"].old, threads["writer"].value}

\* C21: when threads concurrently read an item of a session that is on disk
\* but not in memory, every reader gets the stored value, at most one of
\* them copies the session from disk into memory, and the session is in
\* memory once all of them have returned.
C21_ConcurrentLoad ==
    (\A th \in Threads : threads[th].pc = "returned" /\ "path" \in DOMAIN threads[th]) =>
        /\ \A th \in Threads : threads[th].value = threads[th].old
        /\ Cardinality({th \in Threads : threads[th].path = "loaded"}) <= 1
        /\ \A th \in Threads : MemContains(mem, threads[th].sid)

\* C22: with an undecodable metadata record in the disk index,
\* get_storage_stats and get_all_session_ids return without raising, still
\* report every valid session, and leave no undecodable record in the
\* index; when deleting the record fails too they still return without
\* raising.
C22_SelfHeal ==
    LET valid == SelectSeq(disk.meta, Decodable)
    IN  /\ last.op \in {"fs.get_storage_stats", "fs.get_all_session_ids"} =>
              /\ ~last.raised
              /\ last.path # "delete_failed" => valid = disk.meta
        /\ last.op = "fs.get_all_session_ids" =>
              last.value = [k \in 1..Len(valid) |-> valid[k].session_id]
        /\ last.op = "fs.get_storage_stats" =>
              /\ last.value.total_sessions >= Len(valid)
              /\ last.value.total_items =
                    OdSum([k \in 1..Len(valid) |-> [value |-> Len(valid[k].item_sizes)]])

\* a call that met the undecodable record and removed it, with a valid
\* session in the index
C22_Witness ==
    /\ last.op \in {"fs.get_storage_stats", "fs.get_all_session_ids"}
    /\ last.path = "healed"
    /\ disk.meta # <<>>

\* C23: with an undecodable metadata record present, get_oldest_sessions
\* of the disk tier and of the coordinator and the emergency cleanup
\* return without raising, and the listings name only valid sessions.
C23_CorruptSessionBreaksNothing ==
    /\ last.op \in {"fs.get_oldest_sessions", "get_oldest_sessions",
                    "fs.emergency_cleanup"} => ~last.raised
    /\ last.op \in {"fs.get_oldest_sessions", "get_oldest_sessions"} =>
            \A k \in 1..Len(last.value) : last.value[k].sid # CorruptedSession

\* C24: a disk-tier write made while disk utilization is above the ceiling
\* leaves utilization back below the ceiling, or has evicted the oldest
\* session (by metadata last_access) that was on disk before the write.
C24_CleanupOnWriteAboveCeiling ==
    [][(last'.op = "fs.set_dataframe" /\ last'.path = "above_ceiling"
            /\ SelectSeq(disk.meta, Decodable) # <<>>) =>
        LET valid == SelectSeq(disk.meta, Decodable)
        IN  \E k \in 1..Len(valid) :
                /\ \A j \in 1..Len(valid) : valid[k].last_access <= valid[j].last_access
                /\ ~MetaContains(disk'.meta, valid[k].session_id)]_vars

\* C25: a set_dataframe of an item larger than the giant-item threshold
\* does not bring its session into the memory tier, stores the item on
\* disk, and a get_dataframe of the item then returns the value written.
C25_GiantItemBypassesMemory ==
    [][(/\ last'.op = "set_dataframe"
        /\ last'.path = "ok"
        /\ EstimateDataSize(last'.value) > MemoryMaxItemBytes) =>
            /\ ~MemContains(mem, last'.sid) => ~MemContains(mem', last'.sid)
            /\ ~OdHas(MemData(mem', last'.sid), last'.item)
            /\ BlobIn(disk'.blobs, last'.sid, last'.item)
            /\ FsGetDataframeResult(disk', last'.sid, last'.item) = last'.value]_vars

\* C26: after remove_session(S) on the coordinator neither tier has S, no
\* item blob of S is left on disk and get_dataframe returns None for every
\* item of S; S stays absent under every call that is not a write to S;
\* and remove_session of a session that does not exist changes nothing and
\* does not raise.
C26_RemoveSession ==
    [][LET Absent(m, d, sid) ==
               /\ ~MemContains(m, sid)
               /\ ~FsHasSession(d, sid)
               /\ \A i \in Items :
                      /\ ~BlobIn(d.blobs, sid, i)
                      /\ \A env \in Envs :
                             HybridGetDataframe(cfg, [mem |-> m, disk |-> d, loading |-> {}],
                                                sid, i, env, now, "none", "none").result = None
       IN  /\ last'.op = "remove_session" =>
                 /\ Absent(mem', disk', last'.sid)
                 /\ ~last'.raised
                 /\ last'.path = "absent" => mem' = mem /\ disk' = disk
           /\ \A sid \in Sessions :
                 (/\ Absent(mem, disk, sid)
                  /\ ~(last'.op \in {"set_dataframe", "set_session_data"} /\ last'.sid = sid))
                     => Absent(mem', disk', sid)]_vars

\* C27: force_load_session_to_memory(S) returns True and leaves S in the
\* memory tier whenever the disk tier has S, whatever the memory readings
\* and however full the session cap is, and returns False when the disk
\* tier does not have S.
C27_ForceLoad ==
    [][last'.op = "force_load_session_to_memory" =>
          IF FsHasSession(disk, last'.sid)
          THEN /\ last'.path \in {"loaded", "resident"}
               /\ MemContains(mem', last'.sid)
               /\ ~last'.raised
          ELSE last'.path = "not_on_disk"]_vars

\* C28: a step in which a session leaves the memory tier without
\* remove_session being called (pressure relief, session-cap eviction,
\* memory TTL expiry, eviction after a failed integrity check) leaves the
\* disk tier's content as it was: every blob keeps its bytes and every
\* session its listed items, apart from the one item the step itself
\* writes and the blobs whose own disk TTL ends in that step.
C28_EvictionLeavesDisk ==
    [][(\E sid \in Sessions : MemContains(mem, sid) /\ ~MemContains(mem', sid)) =>
          \A s \in Sessions :
              LET written_here == last'.op = "set_dataframe" /\ last'.sid = s
              IN  /\ \A i \in Items :
                         \/ written_here /\ last'.item = i
                         \/ last'.op = "tick" /\ <<s, i>> \in ExpiredKeys(now')
                         \/ /\ BlobIn(disk'.blobs, s, i) = BlobIn(disk.blobs, s, i)
                            /\ BlobBytes(disk'.blobs, s, i) = BlobBytes(disk.blobs, s, i)
                  /\ DiskContent(disk', s).listed \ (IF written_here THEN {last'.item} ELSE {})
                       = DiskContent(disk, s).listed \ (IF written_here THEN {last'.item} ELSE {})]_vars

\* a write to one session has just pushed another session out of memory,
\* before any deadline has passed, and the disk tier still holds its items
C28_Witness ==
    /\ last.op = "set_dataframe"
    /\ now = 0
    /\ \E sid \in Sessions \ {last.sid} :
          /\ ~MemContains(mem, sid)
          /\ DiskItems(disk, sid) # {}

\* C29: after set_session_data(S, D) has succeeded in both tiers, each tier
\* holds for S exactly the items of D with the values of D, and
\* get_session_data(S) returns D while S is in memory and also after S has
\* been evicted from memory and reloaded from disk.
C29_SetSessionDataInSync ==
    [][\A sid \in Sessions : \A data \in SessionDataChoices(sid) :
          SetSessionData(sid, data, FALSE, NoFsFault) =>
              LET D == [i \in Items |-> OdValue(data, i)]
                  AsMap(od) == [i \in Items |-> OdValue(od, i)]
                  evicted == [mem |-> MemRemoveSession(mem', sid), disk |-> disk',
                              loading |-> loading']
              IN  /\ ~last'.raised
                  /\ AsMap(MemData(mem', sid)) = D
                  /\ [i \in Items |-> FsGetDataframeResult(disk', sid, i)] = D
                  /\ AsMap(HybridGetSessionData(cfg, [evicted EXCEPT !.mem = mem'], sid,
                                                CalmEnv, now, "none", "none").result) = D
                  /\ AsMap(HybridGetSessionData(cfg, evicted, sid,
                                                CalmEnv, now, "none", "none").result) = D]_vars

\* C30: every get_dataframe or set_dataframe of a session through the
\* coordinator leaves the session, in each tier that holds it, with
\* last_access equal to the time of the call and with its deadline one ttl
\* after the call; so no item of a session leaves the disk tier at an
\* instant when the session was accessed at the instant before (both ttl
\* are longer than one instant).
C30_AccessRefreshesBothTiers ==
    [][/\ last'.op \in {"get_dataframe", "set_dataframe"} =>
            /\ \A k \in 1..Len(mem') :
                   mem'[k].sid = last'.sid =>
                       /\ mem'[k].last_access = now
                       /\ mem'[k].expire = now + cfg.memory_ttl
            /\ MetaContains(disk'.meta, last'.sid) =>
                   MetaGet(disk'.meta, last'.sid, 0).last_access = now
            /\ \A i \in Items :
                   BlobIn(disk'.blobs, last'.sid, i) =>
                       disk'.blobs[GetDataKey(last'.sid, i)].expire = now + disk.ttl_seconds
       /\ (last'.op = "tick" /\ last.op \in {"get_dataframe", "set_dataframe"}) =>
            \A i \in Items :
                BlobIn(disk.blobs, last.sid, i) => BlobIn(disk'.blobs, last.sid, i)]_vars

\* C31: in the disk tier a session's items expire together: at every
\* moment either every item that was written to the session (the items its
\* metadata record lists) is readable from the disk tier, or none is.
C31_DiskExpiresWholeSessions ==
    \A sid \in Sessions :
        \/ DiskItems(disk, sid) = {}
        \/ DiskItems(disk, sid) = DiskContent(disk, sid).listed

\* C32: for every session of the disk tier the metadata record agrees with
\* the blobs stored: a session that has blobs has a record, the record
\* lists exactly the items whose blobs are stored, each with the size of
\* its blob, item_count is the number of those items and total_size_bytes
\* the sum of their sizes.
C32_MetadataMatchesBlobs ==
    \A sid \in Sessions :
        /\ DiskItems(disk, sid) # {} => MetaContains(disk.meta, sid)
        /\ MetaContains(disk.meta, sid) =>
              LET md == MetaGet(disk.meta, sid, 0)
              IN  /\ OdNames(md.item_sizes) = DiskItems(disk, sid)
                  /\ md.item_count = Cardinality(DiskItems(disk, sid))
                  /\ \A k \in 1..Len(md.item_sizes) :
                         md.item_sizes[k].value
                             = BlobBytes(disk.blobs, sid, md.item_sizes[k].name).len
                  /\ md.total_size_bytes = OdSum(md.item_sizes)

\* C33: after a set_dataframe(S, I, v2) that succeeded in exactly one tier,
\* get_dataframe(S, I) returns v2 (as written, or as the disk encoding hands
\* it back) and never an older value - both when S is read at once and when
\* S has first been evicted from the memory tier.
C33_DegradedWriteIsNotStale ==
    [][(last'.op = "set_dataframe" /\ last'.path \in {"memory_failed", "filesystem_failed"}) =>
          LET v2 == last'.value
              after == [mem |-> mem', disk |-> disk', loading |-> loading']
              evicted == [after EXCEPT !.mem = MemRemoveSession(mem', last'.sid)]
              Read(st) == HybridGetDataframe(cfg, st, last'.sid, last'.item, CalmEnv, now,
                                             "none", "none").result
          IN  /\ Read(after) \in {v2, SerializeData(v2).payload}
              /\ Read(evicted) \in {v2, SerializeData(v2).payload}]_vars

\* C34: while one thread's lazy load of a session is in flight, a second
\* thread that has called get_dataframe on that session can run its call
\* (it is not made to wait for the load to end).
C34_SecondReaderDoesNotWait ==
    \A a \in Threads, b \in Threads :
        (/\ threads[a].pc = "loading"
         /\ threads[b].pc = "waiting"
         /\ threads[b].sid = threads[a].sid) =>
            ENABLED (\E env \in Envs : Enter(b, env))

\* C35: no deadlock.  Whenever calls are in progress some thread can take
\* its next step; a thread that enters a lock it already holds can always
\* do so; and every call that was started returns.
C35_NoDeadlock ==
    /\ [](\A th \in Threads :
            threads[th].pc = "running" =>
                /\ \E o \in Threads : ENABLED Moves(o)
                /\ LET ins == LockProgram(threads[th].kind, threads[th].env)[threads[th].at]
                   IN  (ins.op = "acquire"
                        /\ \E k \in 1..Len(threads[th].held) : threads[th].held[k] = ins.lock)
                           => ENABLED Moves(th))
    /\ \A th \in Threads : (threads[th].pc = "running") ~> (threads[th].pc = "returned")

\* one thread is inside the coordinator lock twice and inside the memory
\* lock, and the other thread has called and holds nothing
C35_Witness ==
    \E a \in Threads, b \in Threads :
        /\ threads[a].pc = "running" /\ threads[b].pc = "running"
        /\ threads[a].held = <<"hybrid", "hybrid", "memory">>
        /\ threads[b].held = <<>>

\* C36: when two threads have written different items of one session
\* directly to the disk tier and both calls have returned, the session's
\* metadata record lists both items and get_session_data returns both.
C36_NoLostMetadataUpdate ==
    (\A th \in Threads : threads[th].pc = "returned" /\ "stage" \in DOMAIN threads[th]) =>
        \A th \in Threads :
            /\ threads[th].item
                  \in OdNames(MetaGet(disk.meta, threads[th].sid, 0).item_sizes)
            /\ OdHas(FsGetSessionDataResult(disk, threads[th].sid), threads[th].item)

\* C37: whenever no coordinator call is executing the set of loading
\* markers is empty: the marker a lazy load adds is gone when the load has
\* ended, whether it copied the session, found no data or raised.
C37_NoMarkerAtRest == loading = {}

\* a read whose lazy load raised inside the try-block has returned
C37_Witness == last.op = "get_dataframe" /\ last.path = "load_error"

C39_NoCleanupBelowCeiling ==
    [][(last'.op = "fs.emergency_cleanup" /\ last'.path = "below_ceiling") =>
          \A sid \in Sessions : FsHasSession(disk, sid) => FsHasSession(disk', sid)]_vars

\* C40: get_storage_stats and get_oldest_sessions are pure observers: a
\* call on the memory tier or on the coordinator leaves every session's
\* last_access, deadline and place in the eviction order as they were and
\* removes no session from either tier.
C40_ObserversChangeNothing ==
    [][last'.op \in {"mem.get_storage_stats", "mem.get_oldest_sessions",
                     "get_storage_stats", "get_oldest_sessions"} =>
          mem' = mem /\ disk' = disk]_vars

====
